---- MODULE Spec2Model ----
(***************************************************************************)
(* Synaptics DSX firmware updater (src/unnamed/part_000): the reflash      *)
(* orchestrator, its session lock and the bootloader command driver, as a  *)
(* state machine.  Requests arrive from concurrent sysfs writers; the      *)
(* device answers every register access through an oracle chosen by \E.    *)
(***************************************************************************)
EXTENDS Integers, Sequences, FiniteSets, TLC

VARIABLES fwu, dev, mutex, pc, loc, log, work, nfaults, unlocked_access

\* Every function of the driver is called through Call.
RECURSIVE Call(_, _)

\* ------------------------------------------------------------ bounds
\* The requests of one behaviour: an operation that takes the session lock
\* counts for OpWork, a store into an attribute of the handle for StoreWork,
\* and a behaviour holds requests of at most MaxWork together.
MaxWork == 4
OpWork == 2
StoreWork == 1

\* ------------------------------------------------- program constants
BL_V5 == 5
BL_V6 == 6
BL_V7 == 7
BL_V8 == 8

F34_V0 == 0
F34_V1 == 1
F34_V2 == 2

\* enum flash_area
NONE == 0
UI_FIRMWARE == 1
UI_CONFIG == 2

\* enum config_area
UI_CONFIG_AREA == 0
PM_CONFIG_AREA == 1
BL_CONFIG_AREA == 2
DP_CONFIG_AREA == 3
FLASH_CONFIG_AREA == 4

\* enum flash_command (the logical command set)
CMD_IDLE == 0
CMD_WRITE_FW == 1
CMD_WRITE_CONFIG == 2
CMD_WRITE_LOCKDOWN == 3
CMD_WRITE_GUEST_CODE == 4
CMD_READ_CONFIG == 5
CMD_ERASE_ALL == 6
CMD_ERASE_UI_FIRMWARE == 7
CMD_ERASE_UI_CONFIG == 8
CMD_ERASE_BL_CONFIG == 9
CMD_ERASE_DISP_CONFIG == 10
CMD_ERASE_FLASH_CONFIG == 11
CMD_ERASE_GUEST_CODE == 12
CMD_ENABLE_FLASH_PROG == 13

\* enum v7_status
BAD_PARTITION_TABLE == 8

\* enum v7_partition_id
BOOTLOADER_PARTITION == 1
DEVICE_CONFIG_PARTITION == 2
FLASH_CONFIG_PARTITION == 3
GUEST_SERIALIZATION_PARTITION == 5
GLOBAL_PARAMETERS_PARTITION == 6
CORE_CODE_PARTITION == 7
CORE_CONFIG_PARTITION == 8
GUEST_CODE_PARTITION == 9
DISPLAY_CONFIG_PARTITION == 10

\* enum container_id
UI_CONTAINER == 1
UI_CONFIG_CONTAINER == 2
BL_CONTAINER == 3
BL_CONFIG_CONTAINER == 5
BL_LOCKDOWN_INFO_CONTAINER == 6
GUEST_CODE_CONTAINER == 8
GENERAL_INFORMATION_CONTAINER == 13
DEVICE_CONFIG_CONTAINER == 14
FLASH_CONFIG_CONTAINER == 15
GLOBAL_PARAMETERS_CONTAINER == 17
CORE_CODE_CONTAINER == 18
CORE_CONFIG_CONTAINER == 19
DISPLAY_CONFIG_CONTAINER == 20

IMAGE_HEADER_VERSION_05 == 5
IMAGE_HEADER_VERSION_06 == 6
IMAGE_HEADER_VERSION_10 == 16
TDAT_FORMAT_BYTE == 49
LOCKDOWN_SIZE == 80
V5V6_CONFIG_ID_SIZE == 4
V7_CONFIG_ID_SIZE == 32
MAX_IMAGE_NAME_LEN == 256
USHRT_MOD == 65536

\* errno values returned (negated) by the driver
EINVAL == 22
ENODEV == 19
ETIMEDOUT == 110
EIO == 5

Procs == {"p1", "p2"}
NoProc == "none"

\* ------------------------------------------------------------ helpers
Last(s) == s[Len(s)]

RECURSIVE SeqToSet(_)
SeqToSet(s) == IF s = <<>> THEN {} ELSE {Head(s)} \cup SeqToSet(Tail(s))

\* data[i] of a C buffer held as a sequence; a read past the end yields oob.
At(data, i, oob) == IF i >= 0 /\ i < Len(data) THEN data[i + 1] ELSE oob

\* the bytes of a buffer past its modelled prefix are zero
Padded(s, i) == IF i <= Len(s) THEN s[i] ELSE 0

\* ------------------------------------------------- firmware image data
\* struct block_data: data is an offset into the image, NullPtr for NULL.
NullPtr == -1
BlockData(d, n) == [data |-> d, size |-> n]
NoBlock == BlockData(NullPtr, 0)

\* struct block_count / struct physical_address, zeroed
ZeroBlkcount ==
  [ui_firmware |-> 0, ui_config |-> 0, dp_config |-> 0, fl_config |-> 0,
   pm_config |-> 0, bl_config |-> 0, lockdown |-> 0, guest_code |-> 0]
ZeroPhyaddr == [ui_firmware |-> 0, ui_config |-> 0, dp_config |-> 0, guest_code |-> 0]

\* struct image_metadata after memset(&fwu->img, 0x00, sizeof(fwu->img)).
\* cfg holds the bytes ui_config.data points at, pt the partition entries
\* fl_config.data points at.
ZeroImg ==
  [contains_firmware_id |-> FALSE, contains_bootloader |-> FALSE,
   contains_disp_config |-> FALSE, contains_guest_code |-> FALSE,
   contains_flash_config |-> FALSE, firmware_id |-> 0, bl_version |-> 0,
   bootloader_size |-> 0,
   bootloader |-> NoBlock, ui_firmware |-> NoBlock, ui_config |-> NoBlock,
   dp_config |-> NoBlock, fl_config |-> NoBlock, bl_config |-> NoBlock,
   guest_code |-> NoBlock, lockdown |-> NoBlock,
   blkcount |-> ZeroBlkcount, phyaddr |-> ZeroPhyaddr,
   cfg |-> <<>>, pt |-> <<>>]

\* One partition-table entry (struct partition_table): id, length, address.
PtEntry(id, len, addr) == [partition_id |-> id, length |-> len, addr |-> addr]

\* One container descriptor of a version-0x10 image: its id, the address and
\* length of its content, and what the content holds where the decoder reads it
\* (ver: first content byte of a bootloader container, fwid: the build id of a
\* general-information container, sub: the descriptors a bootloader container
\* lists, pt: the partition entries of a flash-config container, bytes: the
\* first bytes of a configuration container).
Container(id, addr, len) ==
  [id |-> id, addr |-> addr, len |-> len, ver |-> 0, fwid |-> 0,
   sub |-> <<>>, pt |-> <<>>, bytes |-> <<>>]

\* struct image_header_05_06, the fields the decoder reads
Header0506(ver, fwid_opt, bl_opt, tddi, fw_size, cfg_size, bl_size, dsp_addr, dsp_size, fwid) ==
  [header_version |-> ver, options_firmware_id |-> fwid_opt,
   options_bootloader |-> bl_opt, options_tddi |-> tddi,
   firmware_size |-> fw_size, config_size |-> cfg_size,
   bootloader_size |-> bl_size, dsp_cfg_addr |-> dsp_addr,
   dsp_cfg_size |-> dsp_size, firmware_id |-> fwid]
NoHeader0506 == Header0506(0, FALSE, FALSE, FALSE, 0, 0, 0, 0, 0, 0)

\* An image buffer: byte 0, the major header version (byte 7), the container
\* list of a 0x10 image, the header of a 05/06 image, the whole buffer of a
\* TDAT image, and the leading bytes of its UI configuration block.
Image(b0, major, top, h56, tdat, cfg) ==
  [b0 |-> b0, major |-> major, top |-> top, h56 |-> h56, tdat |-> tdat, cfg |-> cfg]

\* fwu_parse_partition_table: entry ii sits at byte ii * 8 + 2; entries past
\* the table read as zero bytes (partition id 0, which no case matches).
fwu_parse_partition_table(pt, partitions, ii, blkcount, phyaddr) ==
  IF ii >= partitions THEN [blkcount |-> blkcount, phyaddr |-> phyaddr]
  ELSE
    LET e == IF ii < Len(pt) THEN pt[ii + 1] ELSE PtEntry(0, 0, 0)
        id == e.partition_id
        bc == CASE id = CORE_CODE_PARTITION -> [blkcount EXCEPT !.ui_firmware = e.length]
                [] id = CORE_CONFIG_PARTITION -> [blkcount EXCEPT !.ui_config = e.length]
                [] id = DISPLAY_CONFIG_PARTITION -> [blkcount EXCEPT !.dp_config = e.length]
                [] id = FLASH_CONFIG_PARTITION -> [blkcount EXCEPT !.fl_config = e.length]
                [] id = GUEST_CODE_PARTITION -> [blkcount EXCEPT !.guest_code = e.length]
                [] id = GUEST_SERIALIZATION_PARTITION -> [blkcount EXCEPT !.pm_config = e.length]
                [] id = GLOBAL_PARAMETERS_PARTITION -> [blkcount EXCEPT !.bl_config = e.length]
                [] id = DEVICE_CONFIG_PARTITION -> [blkcount EXCEPT !.lockdown = e.length]
                [] OTHER -> blkcount
        pa == CASE id = CORE_CODE_PARTITION -> [phyaddr EXCEPT !.ui_firmware = e.addr]
                [] id = CORE_CONFIG_PARTITION -> [phyaddr EXCEPT !.ui_config = e.addr]
                [] id = DISPLAY_CONFIG_PARTITION -> [phyaddr EXCEPT !.dp_config = e.addr]
                [] id = GUEST_CODE_PARTITION -> [phyaddr EXCEPT !.guest_code = e.addr]
                [] OTHER -> phyaddr
    IN Call("fwu_parse_partition_table", <<pt, partitions, ii + 1, bc, pa>>)

\* A comparison that leaves the guest code out
fwu_compare_partition_tables_no_guest_code(f) ==
  IF f.phyaddr.ui_firmware # f.img.phyaddr.ui_firmware THEN TRUE
  ELSE IF f.phyaddr.ui_config # f.img.phyaddr.ui_config THEN TRUE
  ELSE IF f.flash_properties.has_disp_config
          /\ f.phyaddr.dp_config # f.img.phyaddr.dp_config THEN TRUE
  ELSE FALSE

\* fwu_compare_partition_tables: the value it leaves in new_partition_table
fwu_compare_partition_tables(f) ==
  IF f.phyaddr.ui_firmware # f.img.phyaddr.ui_firmware THEN TRUE
  ELSE IF f.phyaddr.ui_config # f.img.phyaddr.ui_config THEN TRUE
  ELSE IF f.flash_properties.has_disp_config
          /\ f.phyaddr.dp_config # f.img.phyaddr.dp_config THEN TRUE
  ELSE IF f.has_guest_code
          /\ f.phyaddr.guest_code # f.img.phyaddr.guest_code THEN TRUE
  ELSE FALSE

\* fwu_parse_image_header_10_bl_container: the sub-containers of the
\* bootloader container, in address-table order
fwu_parse_image_header_10_bl_container(img, sub) ==
  IF sub = <<>> THEN img
  ELSE
    LET c == Head(sub)
        next ==
          CASE c.id \in {BL_CONFIG_CONTAINER, GLOBAL_PARAMETERS_CONTAINER} ->
                 [img EXCEPT !.bl_config = BlockData(c.addr, c.len)]
            [] c.id \in {BL_LOCKDOWN_INFO_CONTAINER, DEVICE_CONFIG_CONTAINER} ->
                 [img EXCEPT !.lockdown = BlockData(c.addr, c.len)]
            [] OTHER -> img
    IN Call("fwu_parse_image_header_10_bl_container", <<next, Tail(sub)>>)

\* fwu_parse_image_header_10: the top-level container's children, in order
fwu_parse_image_header_10(img, top) ==
  IF top = <<>> THEN img
  ELSE
    LET c == Head(top)
        next ==
          CASE c.id \in {UI_CONTAINER, CORE_CODE_CONTAINER} ->
                 [img EXCEPT !.ui_firmware = BlockData(c.addr, c.len)]
            [] c.id \in {UI_CONFIG_CONTAINER, CORE_CONFIG_CONTAINER} ->
                 [img EXCEPT !.ui_config = BlockData(c.addr, c.len), !.cfg = c.bytes]
            [] c.id = BL_CONTAINER ->
                 Call("fwu_parse_image_header_10_bl_container", <<
                   [img EXCEPT !.bl_version = c.ver,
                               !.bootloader = BlockData(c.addr, c.len)], c.sub>>)
            [] c.id = GUEST_CODE_CONTAINER ->
                 [img EXCEPT !.contains_guest_code = TRUE,
                             !.guest_code = BlockData(c.addr, c.len)]
            [] c.id = DISPLAY_CONFIG_CONTAINER ->
                 [img EXCEPT !.contains_disp_config = TRUE,
                             !.dp_config = BlockData(c.addr, c.len)]
            [] c.id = FLASH_CONFIG_CONTAINER ->
                 [img EXCEPT !.contains_flash_config = TRUE,
                             !.fl_config = BlockData(c.addr, c.len), !.pt = c.pt]
            [] c.id = GENERAL_INFORMATION_CONTAINER ->
                 [img EXCEPT !.contains_firmware_id = TRUE, !.firmware_id = c.fwid]
            [] OTHER -> img
    IN Call("fwu_parse_image_header_10", <<next, Tail(top)>>)

IMAGE_AREA_OFFSET == 256

\* fwu_parse_image_header_05_06
fwu_parse_image_header_05_06(img0, image) ==
  LET h == image.h56
      bl_size == IF h.options_bootloader THEN h.bootloader_size ELSE img0.bootloader_size
      fw_data0 == IF h.firmware_size # 0
                  THEN IMAGE_AREA_OFFSET + (IF h.options_bootloader THEN bl_size ELSE 0)
                  ELSE NullPtr
      fw_data == IF h.header_version = BL_V6 /\ h.options_tddi
                 THEN IMAGE_AREA_OFFSET ELSE fw_data0
      has_dp == h.options_bootloader \/ h.options_tddi
  IN [img0 EXCEPT
        !.bl_version = h.header_version,
        !.contains_bootloader = h.options_bootloader,
        !.bootloader_size = bl_size,
        !.ui_firmware = BlockData(fw_data, h.firmware_size),
        !.ui_config = BlockData(IF h.config_size # 0
                                THEN fw_data + h.firmware_size ELSE NullPtr,
                                h.config_size),
        !.cfg = IF h.config_size # 0 THEN image.cfg ELSE <<>>,
        !.contains_disp_config = has_dp,
        !.dp_config = IF has_dp THEN BlockData(h.dsp_cfg_addr, h.dsp_cfg_size)
                      ELSE NoBlock,
        !.contains_firmware_id = h.options_firmware_id,
        !.firmware_id = IF h.options_firmware_id THEN h.firmware_id ELSE 0,
        !.lockdown = BlockData(IMAGE_AREA_OFFSET - LOCKDOWN_SIZE, LOCKDOWN_SIZE)]

\* fwu_parse_image_info: [ret, f]; f is the handle with img and
\* new_partition_table as the call leaves them.
fwu_parse_image_info(f, image) ==
  LET parsed ==
        IF image.major = IMAGE_HEADER_VERSION_10
        THEN Call("fwu_parse_image_header_10", <<ZeroImg, image.top>>)
        ELSE Call("fwu_parse_image_header_05_06", <<ZeroImg, image>>)
  IN IF image.major \notin {IMAGE_HEADER_VERSION_10, IMAGE_HEADER_VERSION_05,
                             IMAGE_HEADER_VERSION_06}
     THEN [ret |-> -EINVAL, f |-> [f EXCEPT !.img = ZeroImg]]
     ELSE IF f.bl_version >= BL_V7
     THEN IF ~parsed.contains_flash_config
          THEN [ret |-> -EINVAL, f |-> [f EXCEPT !.img = parsed]]
          ELSE LET t == Call("fwu_parse_partition_table", <<parsed.pt, f.partitions, 0,
                                                  parsed.blkcount, parsed.phyaddr>>)
                   img2 == [parsed EXCEPT !.blkcount = t.blkcount, !.phyaddr = t.phyaddr]
                   f2 == [f EXCEPT !.img = img2]
               IN [ret |-> 0,
                   f |-> [f2 EXCEPT !.new_partition_table = Call("fwu_compare_partition_tables", <<f2>>)]]
     ELSE [ret |-> 0, f |-> [f EXCEPT !.img = parsed, !.new_partition_table = FALSE]]

\* ------------------------------------------------------- TDAT images
\* Integers here end at 2^31 - 1: an unsigned int difference that
\* wraps below zero is kept as that largest value.
UINT_WRAPPED == 2147483647
SYNAPTICS_RMI4_BUILD_ID_SIZE == 3

\* fwu_tdat_image_format
fwu_tdat_image_format(image) == image.b0 = TDAT_FORMAT_BYTE

\* batohui(&dest, src, size): the byte array at src as an unsigned int
batohui(data, at, size, oob) ==
  At(data, at, oob) + At(data, at + 1, oob) * 256
    + (IF size > 2 THEN At(data, at + 2, oob) * 65536 ELSE 0)

\* The length field of the record at offset: 3 bytes, little-endian.
TdatLength(data, offset, oob) ==
  At(data, offset + 3, oob) * 65536 + At(data, offset + 2, oob) * 256
    + At(data, offset + 1, oob)

\* A first loop that also rejects the record that ends at fw_size
TdatFirstPassEndRejected(data, fw_size, offset, oob) ==
  IF offset >= fw_size THEN offset
  ELSE LET length == Call("TdatLength", <<data, offset, oob>>)
       IN IF offset + length + 4 >= fw_size THEN -1
          ELSE Call("TdatFirstPass", <<data, fw_size, offset + length + 4, oob>>)

\* First loop of fwu_parse_tdat_image: the offset it stops at, or -1 when a
\* record ends past fw_size ("Data overflow").
TdatFirstPass(data, fw_size, offset, oob) ==
  IF offset >= fw_size THEN offset
  ELSE LET length == Call("TdatLength", <<data, offset, oob>>)
       IN IF offset + length + 4 > fw_size THEN -1
          ELSE Call("TdatFirstPass", <<data, fw_size, offset + length + 4, oob>>)

\* fwu_tdat_config_set over the section at base, size bytes long: the block
\* (data, size) it leaves in *image, starting from blk.
fwu_tdat_config_set(data, base, size, offset, blk, oob) ==
  IF offset >= size THEN blk
  ELSE LET id == At(data, base + offset + 1, oob) * 256 + At(data, base + offset, oob)
           length == At(data, base + offset + 4, oob) * 256 + At(data, base + offset + 3, oob)
           next == IF id = 1 THEN BlockData(base + offset + 5, length) ELSE blk
       IN Call("fwu_tdat_config_set", <<data, base, size, offset + length + 5, next, oob>>)

\* fwu_tdat_section_offset: skip the (*image)[0] + 1 leading bytes
fwu_tdat_section_offset(data, blk, oob) ==
  LET offset == At(data, blk.data, oob) + 1
  IN BlockData(blk.data + offset,
               IF blk.size >= offset THEN blk.size - offset ELSE UINT_WRAPPED)

\* Second loop of fwu_parse_tdat_image: ids 1 (config) and 2 (firmware)
TdatSecondPass(data, fw_size, offset, img, oob) ==
  IF offset >= fw_size THEN img
  ELSE
    LET id == At(data, offset, oob)
        length == Call("TdatLength", <<data, offset, oob>>)
        section == offset + 4
        next ==
          CASE id = 1 ->
                 LET c == Call("fwu_tdat_section_offset", <<data,
                            Call("fwu_tdat_config_set", <<data, section, length, 0,
                                                img.ui_config, oob>>), oob>>)
                 IN [img EXCEPT !.ui_config = c,
                                !.cfg = <<At(data, c.data, oob), At(data, c.data + 1, oob),
                                          At(data, c.data + 2, oob), At(data, c.data + 3, oob)>>]
            [] id = 2 ->
                 [img EXCEPT !.contains_firmware_id = TRUE,
                             !.firmware_id = batohui(data, section + 1,
                                                     SYNAPTICS_RMI4_BUILD_ID_SIZE, oob),
                             !.ui_firmware = Call("fwu_tdat_section_offset", <<data,
                                               BlockData(section, length), oob>>)]
            [] OTHER -> img
    IN Call("TdatSecondPass", <<data, fw_size, offset + length + 4, next, oob>>)

\* fwu_parse_tdat_image: [ret, f].  The metadata is not cleared first: only
\* the presence flags and lockdown.data are reset.
fwu_parse_tdat_image(f, image, oob) ==
  LET data == image.tdat
      fw_size == Len(data)
      img0 == [f.img EXCEPT !.contains_firmware_id = FALSE,
                            !.contains_bootloader = FALSE,
                            !.contains_disp_config = FALSE,
                            !.contains_guest_code = FALSE,
                            !.contains_flash_config = FALSE,
                            !.lockdown = BlockData(NullPtr, @.size)]
      stop == Call("TdatFirstPass", <<data, fw_size, 1, oob>>)
  IN IF stop = -1 \/ stop # fw_size
     THEN [ret |-> -EINVAL, f |-> [f EXCEPT !.img = img0]]
     ELSE [ret |-> 0, f |-> [f EXCEPT !.img = Call("TdatSecondPass", <<data, fw_size, 1, img0, oob>>)]]

\* ------------------------------------------------------------- device
\* enum v7_flash_command / enum v5v6_flash_command: the register codes
CMD_V7_IDLE == 0
CMD_V7_ENTER_BL == 1
CMD_V7_READ == 2
CMD_V7_WRITE == 3
CMD_V7_ERASE == 4
CMD_V7_ERASE_AP == 5
CMD_V5V6_IDLE == 0
CMD_V5V6_WRITE_FW == 2
CMD_V5V6_ERASE_ALL == 3
CMD_V5V6_WRITE_LOCKDOWN == 4
CMD_V5V6_READ_CONFIG == 5
CMD_V5V6_WRITE_CONFIG == 6
CMD_V5V6_ERASE_UI_CONFIG == 7
CMD_V5V6_ERASE_DISP_CONFIG == 10
CMD_V5V6_ERASE_GUEST_CODE == 11
CMD_V5V6_WRITE_GUEST_CODE == 12
CMD_V5V6_ENABLE_FLASH_PROG == 15

SYNAPTICS_RMI4_F01 == 1
SYNAPTICS_RMI4_F34 == 52
SYNAPTICS_RMI4_F35 == 53
F35_CHUNK_SIZE == 16
CMD_F35_WRITE_CHUNK == 2
CMD_F35_ERASE_ALL == 3
CMD_F35_RESET == 16

\* The payload length (in blocks) the modelled devices report.
PayloadBlocks == 2

\* The semaphore count the model keeps (a bound on pending interrupts).
MaxSema == 2

\* What the bootloader configuration area of a device holds before any update;
\* 0 names an erased area.
FactoryBlConfig == 1

\* The touch controller.  mode: "ui" (application firmware running), "bl"
\* (bootloader / flash programming), "ub" (microbootloader: only F35 in the
\* PDT).  fn_version and bl_major are what the PDT and the F34 queries report;
\* command and status are the F34 command and flash status registers; intr
\* is the F01 interrupt status; fw_ok tells whether a reset starts the
\* application firmware.
Device(fn_version, bl_major, mode, block_size, blkcount, pt, build_id, config_id) ==
  [fn_version |-> fn_version, bl_major |-> bl_major, mode |-> mode,
   fw_ok |-> (mode = "ui"), command |-> 0, status |-> 0, intr |-> FALSE,
   partition |-> 0,
   block_size |-> block_size, blkcount |-> blkcount, pt |-> pt,
   has_disp_config |-> blkcount.dp_config > 0,
   has_pm_config |-> blkcount.pm_config > 0,
   has_bl_config |-> blkcount.bl_config > 0,
   has_guest_code |-> blkcount.guest_code > 0,
   unlocked |-> TRUE, partitions |-> Len(pt), payload_length |-> PayloadBlocks, ub_erased |-> FALSE, ub_written |-> FALSE,
   build_id |-> build_id, config_id |-> config_id,
   bl_config |-> FactoryBlConfig]

\* ------------------------------------------------------ execution state
\* A call runs on m = [f, d, ev, n, c, flt, junk, ret]: the handle fwu, the
\* device, the events of the session so far, the register transfers and the
\* commands counted in this step, the one fault the environment injects in
\* this step, the value an uninitialised byte holds, and the value last
\* returned.
\* Fault kinds: "io" fails register transfer number at; "hang", "fail" and
\* "noirq" make the device mishandle command number at (stay busy, finish
\* with an error status, finish without raising the interrupt).
FaultKinds == {"io", "hang", "fail", "noirq"}
NoFault == [kind |-> "none", at |-> 0]
Fault(kind, at) == [kind |-> kind, at |-> at]

Machine(f, d, ev, flt, junk) ==
  [f |-> f, d |-> d, ev |-> ev, n |-> 0, c |-> 0, flt |-> flt, junk |-> junk,
   ret |-> 0]

Ret(m, r) == [m EXCEPT !.ret = r]
Event(e, a) == [e |-> e, a |-> a]
Emit(m, e, a) == [m EXCEPT !.ev = Append(@, Event(e, a))]

Min(a, b) == IF a < b THEN a ELSE b

\* synaptics_rmi4_reg_read / synaptics_rmi4_reg_write: one transfer on the
\* bus; negative when the transfer fails, which the log records.
synaptics_rmi4_reg(m) ==
  LET k == m.n + 1
  IN IF m.flt.kind = "io" /\ m.flt.at = k
     THEN Emit([m EXCEPT !.n = k, !.ret = -EIO], "io_error", 0)
     ELSE [m EXCEPT !.n = k, !.ret = 0]

\* The attention line: the F34 handler fwu_irq posts the semaphore when it is
\* installed.
fwu_irq(m) ==
  [m EXCEPT !.d.intr = TRUE,
            !.f.irq_sema = IF m.f.irq_enabled THEN Min(@ + 1, MaxSema) ELSE @]

\* What the device does with a command written to the F34 command register:
\* code is the register value, partition the partition it addresses.
DeviceCommand(m, code, partition) ==
  LET k == m.c + 1
      kind == IF m.flt.at = k THEN m.flt.kind ELSE "none"
      m1 == [m EXCEPT !.c = k, !.d.partition = partition]
      enter == code \in {CMD_V7_ENTER_BL, CMD_V5V6_ENABLE_FLASH_PROG}
                 /\ (m.d.fn_version = F34_V2) = (code = CMD_V7_ENTER_BL)
      erases_fw == IF m.d.fn_version = F34_V2
                   THEN code = CMD_V7_ERASE_AP
                          \/ (code = CMD_V7_ERASE /\ partition = CORE_CODE_PARTITION)
                   ELSE code = CMD_V5V6_ERASE_ALL
      erases_bl == m.d.fn_version = F34_V2 /\ code = CMD_V7_ERASE
                     /\ partition = GLOBAL_PARAMETERS_PARTITION
      done == [m1 EXCEPT !.d.command = 0, !.d.status = 0,
                         !.d.mode = IF enter /\ @ = "ui" THEN "bl" ELSE @,
                         !.d.fw_ok = IF erases_fw THEN FALSE ELSE @,
                         !.d.bl_config = IF erases_bl THEN 0 ELSE @]
  IN CASE kind = "hang" -> [m1 EXCEPT !.d.command = code]
       [] kind = "fail" -> fwu_irq([m1 EXCEPT !.d.command = 0, !.d.status = 3])
       [] kind = "noirq" -> done
       [] OTHER -> fwu_irq(done)

\* rmi4_data->reset_device: the controller restarts, into the application
\* firmware when the flash holds one, and pulls the attention line.  The log
\* tells whether the flash interrupt handler was enabled at the reset.
reset_device(m) ==
  LET m1 == [m EXCEPT !.d.command = 0, !.d.status = 0,
                      !.d.mode = IF @ = "ub" THEN "ub"
                                 ELSE IF m.d.fw_ok THEN "ui" ELSE "bl"]
  IN Emit(fwu_irq(fwu_irq(m1)), "reset", IF m.f.irq_enabled THEN 1 ELSE 0)

\* ------------------------------------------------- flash status and irq
\* The flash status register as the device lays it out for its F34 version.
StatusRegister(d) ==
  (IF d.mode = "bl" THEN 128 ELSE 0)
    + (CASE d.fn_version = F34_V0 -> (d.status % 8) * 16
         [] d.fn_version = F34_V1 -> d.status % 8
         [] OTHER -> d.status % 32)

fwu_read_flash_status_command_kept(m) ==
  LET m1 == synaptics_rmi4_reg(m)
      status == StatusRegister(m.d)
      fs == CASE m.f.bl_version = BL_V5 -> (status \div 16) % 8
              [] m.f.bl_version = BL_V6 -> status % 8
              [] OTHER -> status % 32
      m2 == [m1 EXCEPT !.f.in_bl_mode = (status \div 128) = 1,
                       !.f.flash_status = fs]
      m3 == synaptics_rmi4_reg(m2)
  IN IF m1.ret < 0 THEN m1
     ELSE IF m3.ret < 0 THEN m3
     ELSE Ret(m3, 0)

\* fwu_read_flash_status
fwu_read_flash_status(m) ==
  LET m1 == synaptics_rmi4_reg(m)
      status == StatusRegister(m.d)
      fs == CASE m.f.bl_version = BL_V5 -> (status \div 16) % 8
              [] m.f.bl_version = BL_V6 -> status % 8
              [] OTHER -> status % 32
      m2 == [m1 EXCEPT !.f.in_bl_mode = (status \div 128) = 1,
                       !.f.flash_status = fs]
      m3 == synaptics_rmi4_reg(m2)
  IN IF m1.ret < 0 THEN m1
     ELSE IF m3.ret < 0 THEN m3
     ELSE IF m.f.bl_version <= BL_V6
     THEN Ret([m3 EXCEPT !.f.command = IF m.f.bl_version = BL_V5
                                        THEN m.d.command % 16
                                        ELSE m.d.command % 64], 0)
     ELSE Ret([m3 EXCEPT !.f.flash_status = IF fs = BAD_PARTITION_TABLE THEN 0 ELSE fs,
                         !.f.command = m.d.command], 0)

\* fwu_read_interrupt_status: the F01 interrupt status byte, or a negative
\* value when the read fails.  Reading the register clears it.
fwu_read_interrupt_status(m) ==
  LET m1 == synaptics_rmi4_reg(m)
  IN IF m1.ret < 0 THEN m1
     ELSE Ret([m1 EXCEPT !.d.intr = FALSE], IF m.d.intr THEN 1 ELSE 0)

\* fwu_irq_enable
fwu_irq_enable(m, enable) ==
  IF enable
  THEN IF m.f.irq_enabled THEN m
       ELSE LET m1 == Call("fwu_read_interrupt_status", <<m>>)
            IN [m1 EXCEPT !.f.irq_enabled = TRUE, !.f.irq_sema = 0]
  ELSE IF ~m.f.irq_enabled THEN m
       ELSE [m EXCEPT !.f.irq_enabled = FALSE, !.f.irq_sema = 0]

\* fwu_wait_for_idle: down_timeout fails when no interrupt was posted.  The
\* log holds a "wait" for every wait made, after a "timeout" when it timed
\* out, and a "not_idle" with the flash status when the status read after
\* the wait shows a command in progress or a flash status other than 0.
fwu_wait_for_idle(m) ==
  LET timed_out == m.f.irq_sema = 0
      m0 == Emit(IF timed_out THEN Emit(m, "timeout", 0)
                 ELSE [m EXCEPT !.f.irq_sema = @ - 1], "wait", 0)
      m1 == Call("fwu_read_interrupt_status", <<m0>>)
      retval == m1.ret
      m2 == Call("fwu_read_flash_status", <<m1>>)
  IN IF m2.f.command = CMD_IDLE /\ m2.f.flash_status = 0
     THEN Ret(m2, 0)
     ELSE Ret(Emit(m2, "not_idle", m2.f.flash_status), retval)

\* A reset followed by a single wait
fwu_reset_device_single_wait(m) ==
  LET m1 == Call("reset_device", <<m>>)
  IN IF m1.f.irq_enabled THEN Call("fwu_wait_for_idle", <<m1>>) ELSE m1

\* fwu_reset_device
fwu_reset_device(m) ==
  LET m1 == Call("reset_device", <<m>>)
  IN IF m1.f.irq_enabled
     THEN Call("fwu_wait_for_idle", <<Call("fwu_wait_for_idle", <<m1>>)>>)
     ELSE m1

\* ---------------------------------------------------------- commands
\* fwu_write_f34_v7_command_single_transaction
fwu_write_f34_v7_command_single_transaction(m, cmd) ==
  LET partition ==
        CASE cmd \in {CMD_ERASE_ALL, CMD_ERASE_UI_FIRMWARE} -> CORE_CODE_PARTITION
          [] cmd = CMD_ERASE_BL_CONFIG -> GLOBAL_PARAMETERS_PARTITION
          [] cmd = CMD_ERASE_UI_CONFIG -> CORE_CONFIG_PARTITION
          [] cmd = CMD_ERASE_DISP_CONFIG -> DISPLAY_CONFIG_PARTITION
          [] cmd = CMD_ERASE_FLASH_CONFIG -> FLASH_CONFIG_PARTITION
          [] cmd = CMD_ERASE_GUEST_CODE -> GUEST_CODE_PARTITION
          [] cmd = CMD_ENABLE_FLASH_PROG -> BOOTLOADER_PARTITION
          [] OTHER -> 0
      command ==
        CASE cmd = CMD_ERASE_ALL -> CMD_V7_ERASE_AP
          [] cmd = CMD_ENABLE_FLASH_PROG -> CMD_V7_ENTER_BL
          [] cmd \in {CMD_ERASE_UI_FIRMWARE, CMD_ERASE_BL_CONFIG, CMD_ERASE_UI_CONFIG,
                      CMD_ERASE_DISP_CONFIG, CMD_ERASE_FLASH_CONFIG,
                      CMD_ERASE_GUEST_CODE} -> CMD_V7_ERASE
          [] OTHER -> 0
      m1 == synaptics_rmi4_reg(m)
  IN IF m1.ret < 0 THEN m1
     ELSE Ret(Call("DeviceCommand", <<Emit(m1, "cmd", cmd), command, partition>>), 0)

\* fwu_write_f34_v7_command
fwu_write_f34_v7_command(m, cmd) ==
  LET command ==
        CASE cmd \in {CMD_WRITE_FW, CMD_WRITE_CONFIG, CMD_WRITE_GUEST_CODE} -> CMD_V7_WRITE
          [] cmd = CMD_READ_CONFIG -> CMD_V7_READ
          [] cmd = CMD_ERASE_ALL -> CMD_V7_ERASE_AP
          [] cmd \in {CMD_ERASE_UI_FIRMWARE, CMD_ERASE_BL_CONFIG, CMD_ERASE_UI_CONFIG,
                      CMD_ERASE_DISP_CONFIG, CMD_ERASE_FLASH_CONFIG,
                      CMD_ERASE_GUEST_CODE} -> CMD_V7_ERASE
          [] cmd = CMD_ENABLE_FLASH_PROG -> CMD_V7_ENTER_BL
          [] OTHER -> -1
      m0 == [m EXCEPT !.f.command = command]
      m1 == synaptics_rmi4_reg(m0)
  IN IF command = -1 THEN Ret(m, -EINVAL)
     ELSE IF cmd \in {CMD_ERASE_ALL, CMD_ERASE_UI_FIRMWARE, CMD_ERASE_BL_CONFIG,
                      CMD_ERASE_UI_CONFIG, CMD_ERASE_DISP_CONFIG,
                      CMD_ERASE_FLASH_CONFIG, CMD_ERASE_GUEST_CODE,
                      CMD_ENABLE_FLASH_PROG}
     THEN Call("fwu_write_f34_v7_command_single_transaction", <<m0, cmd>>)
     ELSE IF m1.ret < 0 THEN m1
     ELSE Ret(Call("DeviceCommand", <<Emit(m1, "cmd", cmd), command, m1.d.partition>>), 0)

\* fwu_write_f34_v5v6_command
fwu_write_f34_v5v6_command(m, cmd) ==
  LET command ==
        CASE cmd = CMD_IDLE -> CMD_V5V6_IDLE
          [] cmd = CMD_WRITE_FW -> CMD_V5V6_WRITE_FW
          [] cmd = CMD_WRITE_CONFIG -> CMD_V5V6_WRITE_CONFIG
          [] cmd = CMD_WRITE_LOCKDOWN -> CMD_V5V6_WRITE_LOCKDOWN
          [] cmd = CMD_WRITE_GUEST_CODE -> CMD_V5V6_WRITE_GUEST_CODE
          [] cmd = CMD_READ_CONFIG -> CMD_V5V6_READ_CONFIG
          [] cmd = CMD_ERASE_ALL -> CMD_V5V6_ERASE_ALL
          [] cmd = CMD_ERASE_UI_CONFIG -> CMD_V5V6_ERASE_UI_CONFIG
          [] cmd = CMD_ERASE_DISP_CONFIG -> CMD_V5V6_ERASE_DISP_CONFIG
          [] cmd = CMD_ERASE_GUEST_CODE -> CMD_V5V6_ERASE_GUEST_CODE
          [] cmd = CMD_ENABLE_FLASH_PROG -> CMD_V5V6_ENABLE_FLASH_PROG
          [] OTHER -> -1
      with_id == cmd \in {CMD_ERASE_ALL, CMD_ERASE_UI_CONFIG, CMD_ERASE_DISP_CONFIG,
                          CMD_ERASE_GUEST_CODE, CMD_ENABLE_FLASH_PROG}
      m1 == IF with_id THEN synaptics_rmi4_reg(m) ELSE Ret(m, 0)
      m2 == synaptics_rmi4_reg([m1 EXCEPT !.f.command = command])
  IN IF command = -1 THEN Ret(m, -EINVAL)
     ELSE IF m1.ret < 0 THEN m1
     ELSE IF m2.ret < 0 THEN m2
     ELSE Ret(Call("DeviceCommand", <<Emit(m2, "cmd", cmd), command, 0>>), 0)

\* fwu_write_f34_command
fwu_write_f34_command(m, cmd) ==
  IF m.f.bl_version >= BL_V7
  THEN Call("fwu_write_f34_v7_command", <<m, cmd>>)
  ELSE Call("fwu_write_f34_v5v6_command", <<m, cmd>>)

\* fwu_write_f34_v7_partition_id.  A config_area outside the five areas leaves
\* the partition byte uninitialised: any of the values in junk.
fwu_write_f34_v7_partition_id(m, cmd, junk) ==
  LET partition ==
        CASE cmd = CMD_WRITE_FW -> CORE_CODE_PARTITION
          [] cmd \in {CMD_WRITE_CONFIG, CMD_READ_CONFIG} ->
               (CASE m.f.config_area = UI_CONFIG_AREA -> CORE_CONFIG_PARTITION
                  [] m.f.config_area = DP_CONFIG_AREA -> DISPLAY_CONFIG_PARTITION
                  [] m.f.config_area = PM_CONFIG_AREA -> GUEST_SERIALIZATION_PARTITION
                  [] m.f.config_area = BL_CONFIG_AREA -> GLOBAL_PARAMETERS_PARTITION
                  [] m.f.config_area = FLASH_CONFIG_AREA -> FLASH_CONFIG_PARTITION
                  [] OTHER -> junk)
          [] cmd = CMD_WRITE_GUEST_CODE -> GUEST_CODE_PARTITION
          [] cmd = CMD_ERASE_ALL -> CORE_CODE_PARTITION
          [] cmd = CMD_ERASE_BL_CONFIG -> GLOBAL_PARAMETERS_PARTITION
          [] cmd = CMD_ERASE_UI_CONFIG -> CORE_CONFIG_PARTITION
          [] cmd = CMD_ERASE_DISP_CONFIG -> DISPLAY_CONFIG_PARTITION
          [] cmd = CMD_ERASE_FLASH_CONFIG -> FLASH_CONFIG_PARTITION
          [] cmd = CMD_ERASE_GUEST_CODE -> GUEST_CODE_PARTITION
          [] cmd = CMD_ENABLE_FLASH_PROG -> BOOTLOADER_PARTITION
          [] OTHER -> -1
      m1 == synaptics_rmi4_reg(m)
  IN IF partition = -1 THEN Ret(m, -EINVAL)
     ELSE IF m1.ret < 0 THEN m1
     ELSE Ret(Emit([m1 EXCEPT !.d.partition = partition], "partition", partition), 0)

\* fwu_write_f34_partition_id
fwu_write_f34_partition_id(m, cmd) ==
  IF m.f.bl_version >= BL_V7
  THEN Call("fwu_write_f34_v7_partition_id", <<m, cmd, m.junk>>)
  ELSE Ret(m, 0)

\* ------------------------------------------------------ PDT and queries
\* The page description table the device shows: F34 and F01 in UI and
\* bootloader mode, only F35 in microbootloader mode; a device described
\* with a table of its own (pdt) shows that table.
PdtEntries(d) ==
  IF "pdt" \in DOMAIN d THEN d.pdt
  ELSE IF d.mode = "ub"
  THEN <<[fn_number |-> SYNAPTICS_RMI4_F35, fn_version |-> 0]>>
  ELSE <<[fn_number |-> SYNAPTICS_RMI4_F34, fn_version |-> d.fn_version],
         [fn_number |-> SYNAPTICS_RMI4_F01, fn_version |-> 0]>>

fwu_recovery_check_status_ignored(m) ==
  LET m1 == synaptics_rmi4_reg(m)
  IN IF m1.ret < 0 THEN m1 ELSE Ret(Emit(m1, "status", m1.d.status % 128), 0)

\* fwu_recovery_check_status
fwu_recovery_check_status(m) ==
  LET m1 == synaptics_rmi4_reg(m)
      status == m1.d.status % 128
      m2 == Emit(m1, "status", status)
  IN IF m1.ret < 0 THEN m1
     ELSE IF status # 0 THEN Ret(m2, -EINVAL)
     ELSE Ret(m2, 0)

\* The loop of fwu_scan_pdt over the entries left; found is the set of
\* function numbers seen.  One register read per entry and one for the empty
\* entry that ends the table.
ScanPdtLoop(m, entries, found) ==
  LET m1 == synaptics_rmi4_reg(m)
      e == Head(entries)
  IN IF m1.ret < 0 THEN [m |-> m1, found |-> found]
     ELSE IF entries = <<>> THEN [m |-> Ret(m1, 0), found |-> found]
     ELSE IF e.fn_number = SYNAPTICS_RMI4_F34
     THEN IF e.fn_version \notin {F34_V0, F34_V1, F34_V2}
          THEN [m |-> Ret(m1, -EINVAL), found |-> found]
          ELSE Call("ScanPdtLoop", <<
                 [m1 EXCEPT !.f.bl_version =
                    CASE e.fn_version = F34_V0 -> BL_V5
                      [] e.fn_version = F34_V1 -> BL_V6
                      [] OTHER -> BL_V7],
                 Tail(entries), found \cup {e.fn_number}>>)
     ELSE Call("ScanPdtLoop", <<m1, Tail(entries), found \cup {e.fn_number}>>)

fwu_scan_pdt_ub_rejected(m) ==
  LET r == Call("ScanPdtLoop", <<Emit([m EXCEPT !.f.in_ub_mode = FALSE], "scan_pdt", 0),
                       PdtEntries(m.d), {}>>)
  IN IF r.m.ret < 0 THEN r.m
     ELSE IF SYNAPTICS_RMI4_F01 \notin r.found \/ SYNAPTICS_RMI4_F34 \notin r.found
     THEN Ret(r.m, -EINVAL)
     ELSE Ret(r.m, 0)

\* fwu_scan_pdt
fwu_scan_pdt(m) ==
  LET r == Call("ScanPdtLoop", <<Emit([m EXCEPT !.f.in_ub_mode = FALSE], "scan_pdt", 0),
                       PdtEntries(m.d), {}>>)
  IN IF r.m.ret < 0 THEN r.m
     ELSE IF SYNAPTICS_RMI4_F01 \notin r.found \/ SYNAPTICS_RMI4_F34 \notin r.found
     THEN IF SYNAPTICS_RMI4_F35 \notin r.found
          THEN Ret(r.m, -EINVAL)
          ELSE Ret(Call("fwu_recovery_check_status", <<[r.m EXCEPT !.f.in_ub_mode = TRUE]>>), 0)
     ELSE Ret(r.m, 0)

\* fwu_read_f34_v7_partition_table: [m, pt], pt the table read
fwu_read_f34_v7_partition_table(m) ==
  LET m0 == [m EXCEPT !.f.config_area = FLASH_CONFIG_AREA]
      m1 == Call("fwu_write_f34_partition_id", <<m0, CMD_READ_CONFIG>>)
      m2 == synaptics_rmi4_reg(m1)
      m3 == synaptics_rmi4_reg(m2)
      m4 == Call("fwu_write_f34_command", <<m3, CMD_READ_CONFIG>>)
      m5 == Call("fwu_wait_for_idle", <<m4>>)
      m6 == synaptics_rmi4_reg(m5)
  IN IF m1.ret < 0 THEN m1
     ELSE IF m2.ret < 0 THEN m2
     ELSE IF m3.ret < 0 THEN m3
     ELSE IF m4.ret < 0 THEN m4
     ELSE IF m5.ret < 0 THEN m5
     ELSE IF m6.ret < 0 THEN m6
     ELSE Ret(m6, 0)

\* fwu_read_f34_v7_queries
fwu_read_f34_v7_queries(m) ==
  LET m1 == synaptics_rmi4_reg(m)
      m2 == synaptics_rmi4_reg(m1)
      d == m.d
      m3 == [m2 EXCEPT
               !.f.bl_version = IF d.bl_major = BL_V8 THEN BL_V8 ELSE @,
               !.f.block_size = d.block_size,
               !.f.payload_length = d.payload_length,
               !.f.flash_properties =
                   [has_disp_config |-> d.has_disp_config,
                    has_pm_config |-> d.has_pm_config,
                    has_bl_config |-> d.has_bl_config],
               !.f.has_guest_code = d.has_guest_code,
               !.f.partitions = d.partitions]
      m4 == Call("fwu_read_f34_v7_partition_table", <<m3>>)
      t == Call("fwu_parse_partition_table", <<m4.d.pt, m4.f.partitions, 0,
                                     m4.f.blkcount, m4.f.phyaddr>>)
  IN IF m1.ret < 0 THEN m1
     ELSE IF m2.ret < 0 THEN m2
     ELSE IF m4.ret < 0 THEN m4
     ELSE Ret([m4 EXCEPT !.f.blkcount = t.blkcount, !.f.phyaddr = t.phyaddr], 0)

\* fwu_read_f34_v5v6_queries: bootloader id, block size, properties and block
\* counts, one register read each.
fwu_read_f34_v5v6_queries(m) ==
  LET d == m.d
      m1 == synaptics_rmi4_reg(m)
      m2 == synaptics_rmi4_reg(m1)
      m3 == synaptics_rmi4_reg([m2 EXCEPT !.f.block_size = d.block_size])
      props == [has_disp_config |-> d.has_disp_config,
                has_pm_config |-> d.has_pm_config,
                has_bl_config |-> d.has_bl_config]
      m4 == synaptics_rmi4_reg([m3 EXCEPT !.f.flash_properties = props])
      m5 == [m4 EXCEPT
               !.f.blkcount.ui_firmware = d.blkcount.ui_firmware,
               !.f.blkcount.ui_config = d.blkcount.ui_config,
               !.f.blkcount.pm_config = IF props.has_pm_config
                                        THEN d.blkcount.pm_config ELSE @,
               !.f.blkcount.bl_config = IF props.has_bl_config
                                        THEN d.blkcount.bl_config ELSE @,
               !.f.blkcount.dp_config = IF props.has_disp_config
                                        THEN d.blkcount.dp_config ELSE @,
               !.f.has_guest_code = FALSE]
      m6 == synaptics_rmi4_reg(m5)
      m7 == synaptics_rmi4_reg(m6)
  IN IF m1.ret < 0 THEN m1
     ELSE IF m2.ret < 0 THEN m2
     ELSE IF m3.ret < 0 THEN m3
     ELSE IF m4.ret < 0 THEN m4
     ELSE IF ~d.has_guest_code THEN Ret(m5, 0)
     ELSE IF m6.ret < 0 THEN m6
     ELSE IF m7.ret < 0 THEN m7
     ELSE Ret([m7 EXCEPT !.f.blkcount.guest_code = d.blkcount.guest_code,
                         !.f.has_guest_code = TRUE], 0)

\* fwu_read_f34_queries
fwu_read_f34_queries(m) ==
  LET m0 == [m EXCEPT !.f.blkcount = ZeroBlkcount, !.f.phyaddr = ZeroPhyaddr]
  IN IF m.f.bl_version = BL_V7
     THEN Call("fwu_read_f34_v7_queries", <<m0>>)
     ELSE Call("fwu_read_f34_v5v6_queries", <<m0>>)

\* ------------------------------------------------------------ go / no-go
\* fwu_get_device_firmware_id: the 3 build id bytes in bytes 1..3 of the
\* unsigned int, byte 0 cleared.
fwu_get_device_firmware_id(d) ==
  d.build_id[1] * 256 + d.build_id[2] * 65536 + d.build_id[3] * 16777216

\* fwu_get_device_config_id
fwu_get_device_config_id(m) ==
  LET m1 == synaptics_rmi4_reg(Emit(m, "config_id", 0))
  IN IF m1.ret < 0 THEN m1
     ELSE Ret([m1 EXCEPT !.f.config_id = m.d.config_id], 0)

\* A comparison loop that takes equal configuration ids for an update
ConfigIdLoopEqualUpdates(image_id, device_id, ii, config_id_size) ==
  IF ii >= config_id_size THEN UI_CONFIG
  ELSE IF Padded(image_id, ii + 1) > Padded(device_id, ii + 1) THEN UI_CONFIG
  ELSE IF Padded(image_id, ii + 1) < Padded(device_id, ii + 1) THEN NONE
  ELSE Call("ConfigIdLoop", <<image_id, device_id, ii + 1, config_id_size>>)

\* The comparison loop of fwu_go_nogo from byte ii on
ConfigIdLoop(image_id, device_id, ii, config_id_size) ==
  IF ii >= config_id_size THEN NONE
  ELSE IF Padded(image_id, ii + 1) > Padded(device_id, ii + 1) THEN UI_CONFIG
  ELSE IF Padded(image_id, ii + 1) < Padded(device_id, ii + 1) THEN NONE
  ELSE Call("ConfigIdLoop", <<image_id, device_id, ii + 1, config_id_size>>)

\* fwu_go_nogo going on to the configuration ids when the image has no
\* build id
fwu_go_nogo_without_build_id(m) ==
  LET m1 == Call("fwu_get_device_config_id", <<m>>)
      config_id_size == IF m.f.bl_version >= BL_V7 THEN V7_CONFIG_ID_SIZE
                        ELSE V5V6_CONFIG_ID_SIZE
  IN IF m.f.force_update THEN Ret(m, UI_FIRMWARE)
     ELSE IF m.f.in_bl_mode THEN Ret(m, UI_FIRMWARE)
     ELSE IF m.f.img.contains_firmware_id
             /\ m.f.img.firmware_id # fwu_get_device_firmware_id(m.d)
     THEN Ret(m, UI_FIRMWARE)
     ELSE IF m1.ret < 0 THEN Ret(m1, NONE)
     ELSE Ret(m1, Call("ConfigIdLoop", <<m1.f.img.cfg, m1.f.config_id, 0, config_id_size>>))

\* fwu_go_nogo: ret is the flash area
fwu_go_nogo(m) ==
  LET m1 == Call("fwu_get_device_config_id", <<m>>)
      config_id_size == IF m.f.bl_version >= BL_V7 THEN V7_CONFIG_ID_SIZE
                        ELSE V5V6_CONFIG_ID_SIZE
  IN IF m.f.force_update THEN Ret(m, UI_FIRMWARE)
     ELSE IF m.f.in_bl_mode THEN Ret(m, UI_FIRMWARE)
     ELSE IF ~m.f.img.contains_firmware_id THEN Ret(m, NONE)
     ELSE IF m.f.img.firmware_id # fwu_get_device_firmware_id(m.d)
     THEN Ret(m, UI_FIRMWARE)
     ELSE IF m1.ret < 0 THEN Ret(m1, NONE)
     ELSE Ret(m1, Call("ConfigIdLoop", <<m1.f.img.cfg, m1.f.config_id, 0, config_id_size>>))

\* fwu_check_intr_en: one register read; no caller uses the result
fwu_check_intr_en(m) == synaptics_rmi4_reg(m)

\* fwu_enter_flash_prog
fwu_enter_flash_prog(m) ==
  LET m1 == Call("fwu_read_flash_status", <<m>>)
      m2 == Call("fwu_write_f34_command", <<m1, CMD_ENABLE_FLASH_PROG>>)
      m3 == Call("fwu_wait_for_idle", <<m2>>)
      m4 == Call("fwu_scan_pdt", <<m3>>)
      m5 == Call("fwu_read_f34_queries", <<Call("fwu_check_intr_en", <<m4>>)>>)
      m6 == synaptics_rmi4_reg(m5)
      m7 == synaptics_rmi4_reg(m6)
  IN IF m1.ret < 0 THEN m1
     ELSE IF m1.f.in_bl_mode THEN Ret(m1, 0)
     ELSE IF m2.ret < 0 THEN m2
     ELSE IF m3.ret < 0 THEN m3
     ELSE IF ~m3.f.in_bl_mode THEN Ret(m3, -EINVAL)
     ELSE IF m4.ret < 0 THEN m4
     ELSE IF m5.ret < 0 THEN m5
     ELSE IF m6.ret < 0 THEN m6
     ELSE m7

\* ------------------------------------------------------- block transfers
PAGE_SIZE == 4096

\* What a completed write leaves in the flash: the firmware, the UI
\* configuration (with its id) or the partition table of the image.
DeviceProgrammed(m, command) ==
  CASE command = CMD_WRITE_FW ->
         [m EXCEPT !.d.fw_ok = TRUE,
                   !.d.build_id = IF m.f.img.contains_firmware_id
                                  THEN <<(m.f.img.firmware_id \div 256) % 256,
                                         (m.f.img.firmware_id \div 65536) % 256,
                                         (m.f.img.firmware_id \div 16777216) % 256>>
                                  ELSE @]
    [] command = CMD_WRITE_CONFIG /\ m.f.config_area = UI_CONFIG_AREA ->
         [m EXCEPT !.d.config_id = m.f.img.cfg]
    [] command = CMD_WRITE_CONFIG /\ m.f.config_area = FLASH_CONFIG_AREA ->
         [m EXCEPT !.d.pt = m.f.img.pt]
    [] command = CMD_WRITE_CONFIG /\ m.f.config_area = BL_CONFIG_AREA ->
         [m EXCEPT !.d.bl_config = m.f.config_data]
    [] OTHER -> m

\* a / b as the C code computes it.  A division by zero is undefined: the
\* build either raises a divide error, after which the call never returns
\* (the machine's junk is other than 0), or yields 0.
Quotient(a, b) == IF b = 0 THEN 0 ELSE a \div b
Traps(m, b) == b = 0 /\ m.junk # 0
Trap(m) == Ret(Emit(m, "divide_error", 0), -EIO)
Trapped(m) == \E i \in 1..Len(m.ev) : m.ev[i].e = "divide_error"

\* The do-while loop of fwu_write_f34_v7_blocks; block_ptr is the offset of
\* the data of the chunk.  The log holds the length and the data position
\* of every chunk.
WriteV7Loop(m, remaining, max_transfer, command, block_ptr) ==
  LET transfer == IF Quotient(remaining, max_transfer) # 0 THEN max_transfer ELSE remaining
      m1 == synaptics_rmi4_reg(Emit(Emit(m, "transfer", transfer), "position", block_ptr))
      m2 == Call("fwu_write_f34_command", <<m1, command>>)
      m3 == synaptics_rmi4_reg(m2)
      m4 == Call("fwu_wait_for_idle", <<m3>>)
  IN IF Traps(m, max_transfer) THEN Trap(m)
     ELSE IF m1.ret < 0 THEN m1
     ELSE IF m2.ret < 0 THEN m2
     ELSE IF m3.ret < 0 THEN m3
     ELSE IF m4.ret < 0 THEN m4
     ELSE IF remaining - transfer # 0
     THEN Call("WriteV7Loop", <<m4, remaining - transfer, max_transfer, command,
                                block_ptr + transfer * m.f.block_size>>)
     ELSE Ret(m4, 0)

\* fwu_write_f34_v7_blocks
fwu_write_f34_v7_blocks(m, block_cnt, command) ==
  LET m1 == Call("fwu_write_f34_partition_id", <<m, command>>)
      m2 == synaptics_rmi4_reg(m1)
      max_transfer == IF m.f.payload_length > Quotient(PAGE_SIZE, m.f.block_size)
                      THEN Quotient(PAGE_SIZE, m.f.block_size)
                      ELSE m.f.payload_length
      m3 == Call("WriteV7Loop", <<m2, block_cnt, max_transfer, command, 0>>)
  IN IF m1.ret < 0 THEN m1
     ELSE IF m2.ret < 0 THEN m2
     ELSE IF Traps(m2, m.f.block_size) THEN Trap(m2)
     ELSE IF m3.ret < 0 THEN m3
     ELSE Call("DeviceProgrammed", <<m3, command>>)

\* The for loop of fwu_write_f34_v5v6_blocks; block_ptr advances by one
\* block with blk.
WriteV5V6Loop(m, blk, block_cnt, command) ==
  LET m1 == synaptics_rmi4_reg(Emit(m, "position", blk * m.f.block_size))
      m2 == Call("fwu_write_f34_command", <<m1, command>>)
      m3 == Call("fwu_wait_for_idle", <<m2>>)
  IN IF blk >= block_cnt THEN Ret(m, 0)
     ELSE IF m1.ret < 0 THEN m1
     ELSE IF m2.ret < 0 THEN m2
     ELSE IF m3.ret < 0 THEN m3
     ELSE Call("WriteV5V6Loop", <<m3, blk + 1, block_cnt, command>>)

\* fwu_write_f34_v5v6_blocks
fwu_write_f34_v5v6_blocks(m, block_cnt, command) ==
  LET m1 == synaptics_rmi4_reg(m)
      m2 == Call("WriteV5V6Loop", <<Emit(m1, "config_area", m.f.config_area),
                                    0, block_cnt, command>>)
  IN IF m1.ret < 0 THEN m1
     ELSE IF m2.ret < 0 THEN m2
     ELSE Call("DeviceProgrammed", <<m2, command>>)

\* fwu_write_f34_blocks
fwu_write_f34_blocks(m, block_cnt, cmd) ==
  IF m.f.bl_version >= BL_V7
  THEN Call("fwu_write_f34_v7_blocks", <<m, block_cnt, cmd>>)
  ELSE Call("fwu_write_f34_v5v6_blocks", <<m, block_cnt, cmd>>)

\* What a completed read leaves in read_config_buf: the content of the area
\* config_area names (the model keeps the bootloader configuration only).
DeviceRead(m) ==
  [m EXCEPT !.f.read_config_buf = IF m.f.config_area = BL_CONFIG_AREA
                                  THEN m.d.bl_config ELSE 0]

\* The do-while loop of fwu_read_f34_v7_blocks; index is the position in
\* read_config_buf, an unsigned short.
ReadV7Loop(m, remaining, max_transfer, command, index) ==
  LET transfer == IF Quotient(remaining, max_transfer) # 0 THEN max_transfer ELSE remaining
      m1 == synaptics_rmi4_reg(Emit(Emit(m, "transfer", transfer), "position", index))
      m2 == Call("fwu_write_f34_command", <<m1, command>>)
      m3 == Call("fwu_wait_for_idle", <<m2>>)
      m4 == synaptics_rmi4_reg(m3)
  IN IF Traps(m, max_transfer) THEN Trap(m)
     ELSE IF m1.ret < 0 THEN m1
     ELSE IF m2.ret < 0 THEN m2
     ELSE IF m3.ret < 0 THEN m3
     ELSE IF m4.ret < 0 THEN m4
     ELSE IF remaining - transfer # 0
     THEN Call("ReadV7Loop", <<m4, remaining - transfer, max_transfer, command,
                               (index + transfer * m.f.block_size) % USHRT_MOD>>)
     ELSE Ret(m4, 0)

\* fwu_read_f34_v7_blocks
fwu_read_f34_v7_blocks(m, block_cnt, command) ==
  LET m1 == Call("fwu_write_f34_partition_id", <<m, command>>)
      m2 == synaptics_rmi4_reg(m1)
      max_transfer == IF m.f.payload_length > Quotient(PAGE_SIZE, m.f.block_size)
                      THEN Quotient(PAGE_SIZE, m.f.block_size)
                      ELSE m.f.payload_length
      m3 == Call("ReadV7Loop", <<m2, block_cnt, max_transfer, command, 0>>)
  IN IF m1.ret < 0 THEN m1
     ELSE IF m2.ret < 0 THEN m2
     ELSE IF Traps(m2, m.f.block_size) THEN Trap(m2)
     ELSE IF m3.ret < 0 THEN m3
     ELSE DeviceRead(m3)

\* The for loop of fwu_read_f34_v5v6_blocks; index, an unsigned short,
\* advances by one block with blk.
ReadV5V6Loop(m, blk, block_cnt, command) ==
  LET m1 == Call("fwu_write_f34_command",
                 <<Emit(m, "position", (blk * m.f.block_size) % USHRT_MOD), command>>)
      m2 == Call("fwu_wait_for_idle", <<m1>>)
      m3 == synaptics_rmi4_reg(m2)
  IN IF blk >= block_cnt THEN Ret(m, 0)
     ELSE IF m1.ret < 0 THEN m1
     ELSE IF m2.ret < 0 THEN m2
     ELSE IF m3.ret < 0 THEN m3
     ELSE Call("ReadV5V6Loop", <<m3, blk + 1, block_cnt, command>>)

\* fwu_read_f34_v5v6_blocks
fwu_read_f34_v5v6_blocks(m, block_cnt, command) ==
  LET m1 == synaptics_rmi4_reg(m)
      m2 == Call("ReadV5V6Loop", <<m1, 0, block_cnt, command>>)
  IN IF m1.ret < 0 THEN m1
     ELSE IF m2.ret < 0 THEN m2
     ELSE DeviceRead(m2)

\* fwu_read_f34_blocks
fwu_read_f34_blocks(m, block_cnt, cmd) ==
  IF m.f.bl_version >= BL_V7
  THEN Call("fwu_read_f34_v7_blocks", <<m, block_cnt, cmd>>)
  ELSE Call("fwu_read_f34_v5v6_blocks", <<m, block_cnt, cmd>>)

\* ----------------------------------------------------------- size checks
\* unsigned short block_count = size / fwu->block_size
BlockCount(size, block_size) == (size \div block_size) % USHRT_MOD

\* fwu_check_ui_firmware_size
fwu_check_ui_firmware_size(f) ==
  IF BlockCount(f.img.ui_firmware.size, f.block_size) # f.blkcount.ui_firmware
  THEN -EINVAL ELSE 0

\* fwu_check_ui_configuration_size
fwu_check_ui_configuration_size(f) ==
  IF BlockCount(f.img.ui_config.size, f.block_size) # f.blkcount.ui_config
  THEN -EINVAL ELSE 0

\* fwu_check_dp_configuration_size
fwu_check_dp_configuration_size(f) ==
  IF BlockCount(f.img.dp_config.size, f.block_size) # f.blkcount.dp_config
  THEN -EINVAL ELSE 0

\* fwu_check_bl_configuration_size
fwu_check_bl_configuration_size(f) ==
  IF BlockCount(f.img.bl_config.size, f.block_size) # f.blkcount.bl_config
  THEN -EINVAL ELSE 0

\* fwu_check_guest_code_size
fwu_check_guest_code_size(f) ==
  IF BlockCount(f.img.guest_code.size, f.block_size) # f.blkcount.guest_code
  THEN -EINVAL ELSE 0

\* ------------------------------------------------------ erase and write
\* fwu_write_firmware
fwu_write_firmware(m) ==
  Call("fwu_write_f34_blocks", <<m, BlockCount(m.f.img.ui_firmware.size, m.f.block_size),
                       CMD_WRITE_FW>>)

\* fwu_erase_configuration: the value returned after the wait is the wait's
\* own (not negative when the wait does not fail).
fwu_erase_configuration(m) ==
  LET m1 == CASE m.f.config_area = UI_CONFIG_AREA ->
                   Call("fwu_write_f34_command", <<m, CMD_ERASE_UI_CONFIG>>)
              [] m.f.config_area = DP_CONFIG_AREA ->
                   Call("fwu_write_f34_command", <<m, CMD_ERASE_DISP_CONFIG>>)
              [] m.f.config_area = BL_CONFIG_AREA ->
                   Call("fwu_write_f34_command", <<m, CMD_ERASE_BL_CONFIG>>)
              [] OTHER -> Ret(m, 0)
  IN IF m1.ret < 0 THEN m1 ELSE Call("fwu_wait_for_idle", <<m1>>)

\* fwu_erase_guest_code
fwu_erase_guest_code(m) ==
  LET m1 == Call("fwu_write_f34_command", <<m, CMD_ERASE_GUEST_CODE>>)
      m2 == Call("fwu_wait_for_idle", <<m1>>)
  IN IF m1.ret < 0 THEN m1
     ELSE IF m2.ret < 0 THEN m2
     ELSE Ret(m2, 0)

EraseAllTailGuestAlways(m) ==
  LET m1 == IF m.f.flash_properties.has_disp_config
            THEN Call("fwu_erase_configuration", <<[m EXCEPT !.f.config_area = DP_CONFIG_AREA]>>)
            ELSE Ret(m, 0)
      m2 == Call("fwu_erase_guest_code", <<m1>>)
  IN IF m1.ret < 0 THEN m1
     ELSE IF m1.f.has_guest_code
     THEN (IF m2.ret < 0 THEN m2 ELSE Ret(m2, 0))
     ELSE Ret(m1, 0)

\* The tail of fwu_erase_all: display configuration and guest code
EraseAllTail(m) ==
  LET m1 == IF m.f.flash_properties.has_disp_config
            THEN Call("fwu_erase_configuration", <<[m EXCEPT !.f.config_area = DP_CONFIG_AREA]>>)
            ELSE Ret(m, 0)
      m2 == Call("fwu_erase_guest_code", <<m1>>)
  IN IF m1.ret < 0 THEN m1
     ELSE IF m1.f.new_partition_table /\ m1.f.has_guest_code
     THEN (IF m2.ret < 0 THEN m2 ELSE Ret(m2, 0))
     ELSE Ret(m1, 0)

fwu_erase_all_combined(m) ==
  LET m1 == Call("fwu_write_f34_command", <<m, CMD_ERASE_ALL>>)
      m2 == Call("fwu_wait_for_idle", <<m1>>)
  IN IF m1.ret < 0 THEN m1
     ELSE IF ~(m2.f.bl_version = BL_V8 /\ m2.f.flash_status = BAD_PARTITION_TABLE)
             /\ m2.ret < 0
     THEN m2
     ELSE IF m2.f.bl_version = BL_V8 THEN Ret(m2, 0)
     ELSE Call("EraseAllTail", <<m2>>)

\* fwu_erase_all
fwu_erase_all(m) ==
  IF m.f.bl_version = BL_V7
  THEN LET m1 == Call("fwu_write_f34_command", <<m, CMD_ERASE_UI_FIRMWARE>>)
           m2 == Call("fwu_wait_for_idle", <<m1>>)
           m3 == Call("fwu_erase_configuration", <<[m2 EXCEPT !.f.config_area = UI_CONFIG_AREA]>>)
       IN IF m1.ret < 0 THEN m1
          ELSE IF m2.ret < 0 THEN m2
          ELSE IF m3.ret < 0 THEN m3
          ELSE Call("EraseAllTail", <<m3>>)
  ELSE LET m1 == Call("fwu_write_f34_command", <<m, CMD_ERASE_ALL>>)
           m2 == Call("fwu_wait_for_idle", <<m1>>)
       IN IF m1.ret < 0 THEN m1
          ELSE IF ~(m2.f.bl_version = BL_V8 /\ m2.f.flash_status = BAD_PARTITION_TABLE)
                  /\ m2.ret < 0
          THEN m2
          ELSE IF m2.f.bl_version = BL_V8 THEN Ret(m2, 0)
          ELSE Call("EraseAllTail", <<m2>>)

\* fwu_write_configuration with config_block_count blocks
fwu_write_configuration(m, config_block_count) ==
  Call("fwu_write_f34_blocks", <<m, config_block_count, CMD_WRITE_CONFIG>>)

\* fwu_write_ui_configuration
fwu_write_ui_configuration(m) ==
  Call("fwu_write_configuration", <<[m EXCEPT !.f.config_area = UI_CONFIG_AREA,
                                              !.f.config_data = m.f.img.ui_config.data],
                          BlockCount(m.f.img.ui_config.size, m.f.block_size)>>)

\* fwu_write_dp_configuration
fwu_write_dp_configuration(m) ==
  Call("fwu_write_configuration", <<[m EXCEPT !.f.config_area = DP_CONFIG_AREA,
                                              !.f.config_data = m.f.img.dp_config.data],
                          BlockCount(m.f.img.dp_config.size, m.f.block_size)>>)

\* fwu_write_flash_configuration
fwu_write_flash_configuration(m) ==
  LET m0 == [m EXCEPT !.f.config_area = FLASH_CONFIG_AREA,
                      !.f.config_data = m.f.img.fl_config.data]
      config_block_count == BlockCount(m.f.img.fl_config.size, m.f.block_size)
      m1 == Call("fwu_write_f34_command", <<m0, CMD_ERASE_FLASH_CONFIG>>)
      m2 == Call("fwu_wait_for_idle", <<m1>>)
      m3 == Call("fwu_write_configuration", <<m2, config_block_count>>)
  IN IF config_block_count # m.f.blkcount.fl_config
     THEN Ret(Emit(m0, "size_mismatch", 0), -EINVAL)
     ELSE IF m1.ret < 0 THEN m1
     ELSE IF m2.ret < 0 THEN m2
     ELSE IF m3.ret < 0 THEN m3
     ELSE Ret(Call("fwu_reset_device", <<m3>>), 0)

\* fwu_write_guest_code
fwu_write_guest_code(m) ==
  LET m1 == Call("fwu_write_f34_blocks", <<m, BlockCount(m.f.img.guest_code.size, m.f.block_size),
                                 CMD_WRITE_GUEST_CODE>>)
  IN IF m1.ret < 0 THEN m1 ELSE Ret(m1, 0)

\* fwu_write_lockdown
fwu_write_lockdown(m) ==
  Call("fwu_write_f34_blocks", <<m, BlockCount(m.f.img.lockdown.size, m.f.block_size),
                       CMD_WRITE_LOCKDOWN>>)

\* fwu_write_partition_table_v8
fwu_write_partition_table_v8(m) ==
  LET m0 == [m EXCEPT !.f.config_area = FLASH_CONFIG_AREA,
                      !.f.config_data = m.f.img.fl_config.data]
      config_block_count == BlockCount(m.f.img.fl_config.size, m.f.block_size)
      m1 == Call("fwu_write_configuration", <<m0, config_block_count>>)
  IN IF config_block_count # m.f.blkcount.fl_config
     THEN Ret(Emit(m0, "size_mismatch", 0), -EINVAL)
     ELSE IF m1.ret < 0 THEN m1
     ELSE Ret(Call("fwu_reset_device", <<m1>>), 0)

fwu_write_partition_table_v7_image_data(m) ==
  LET block_count == m.f.blkcount.bl_config
      m1 == Call("fwu_read_f34_blocks", <<[m EXCEPT !.f.config_area = BL_CONFIG_AREA],
                                block_count, CMD_READ_CONFIG>>)
      m2 == Call("fwu_erase_configuration", <<m1>>)
      m3 == Call("fwu_write_flash_configuration", <<m2>>)
      m4 == Call("fwu_write_configuration", <<
              [m3 EXCEPT !.f.config_area = BL_CONFIG_AREA,
                         !.f.config_data = m3.f.img.bl_config.data],
              BlockCount(m3.f.img.bl_config.size, m3.f.block_size)>>)
  IN IF m1.ret < 0 THEN m1
     ELSE IF m2.ret < 0 THEN m2
     ELSE IF m3.ret < 0 THEN m3
     ELSE IF m4.ret < 0 THEN m4
     ELSE Ret(m4, 0)

\* fwu_write_partition_table_v7
fwu_write_partition_table_v7(m) ==
  LET block_count == m.f.blkcount.bl_config
      m1 == Call("fwu_read_f34_blocks", <<[m EXCEPT !.f.config_area = BL_CONFIG_AREA],
                                block_count, CMD_READ_CONFIG>>)
      m2 == Call("fwu_erase_configuration", <<m1>>)
      m3 == Call("fwu_write_flash_configuration", <<m2>>)
      m4 == Call("fwu_write_configuration", <<
              [m3 EXCEPT !.f.config_area = BL_CONFIG_AREA,
                         !.f.config_data = m3.f.read_config_buf],
              BlockCount(m3.f.img.bl_config.size, m3.f.block_size)>>)
  IN IF m1.ret < 0 THEN m1
     ELSE IF m2.ret < 0 THEN m2
     ELSE IF m3.ret < 0 THEN m3
     ELSE IF m4.ret < 0 THEN m4
     ELSE Ret(m4, 0)

\* The size checks fwu_do_reflash makes before fwu_erase_all
DoReflashChecks(f) ==
  IF ~f.new_partition_table
  THEN IF fwu_check_ui_firmware_size(f) < 0 THEN -EINVAL
       ELSE IF fwu_check_ui_configuration_size(f) < 0 THEN -EINVAL
       ELSE IF f.flash_properties.has_disp_config /\ f.img.contains_disp_config
               /\ fwu_check_dp_configuration_size(f) < 0 THEN -EINVAL
       ELSE IF f.has_guest_code /\ f.img.contains_guest_code
               /\ fwu_check_guest_code_size(f) < 0 THEN -EINVAL
       ELSE 0
  ELSE IF f.bl_version = BL_V7 THEN fwu_check_bl_configuration_size(f)
  ELSE 0

\* The writes of fwu_do_reflash after the partition table
DoReflashWrites(m) ==
  LET m1 == Call("fwu_write_firmware", <<m>>)
      m2 == Call("fwu_write_ui_configuration", <<[m1 EXCEPT !.f.config_area = UI_CONFIG_AREA]>>)
      dp == m2.f.flash_properties.has_disp_config /\ m2.f.img.contains_disp_config
      m3 == IF dp THEN Call("fwu_write_dp_configuration", <<m2>>) ELSE m2
      gc == m3.f.new_partition_table /\ m3.f.has_guest_code
              /\ m3.f.img.contains_guest_code
      m4 == IF gc THEN Call("fwu_write_guest_code", <<m3>>) ELSE m3
  IN IF m1.ret < 0 THEN m1
     ELSE IF m2.ret < 0 THEN m2
     ELSE IF m3.ret < 0 THEN m3
     ELSE m4

fwu_do_reflash_table_when_new(m) ==
  LET m1 == Call("fwu_erase_all", <<m>>)
      m2 == IF m1.f.bl_version = BL_V7 /\ m1.f.new_partition_table
            THEN Call("fwu_write_partition_table_v7", <<m1>>)
            ELSE IF m1.f.bl_version = BL_V8 /\ m1.f.new_partition_table
            THEN Call("fwu_write_partition_table_v8", <<m1>>)
            ELSE m1
  IN IF Call("DoReflashChecks", <<m.f>>) < 0
     THEN Ret(Emit(m, "size_mismatch", 0), Call("DoReflashChecks", <<m.f>>))
     ELSE IF m1.ret < 0 THEN m1
     ELSE IF m2.ret < 0 THEN m2
     ELSE Call("DoReflashWrites", <<m2>>)

\* fwu_do_reflash
fwu_do_reflash(m) ==
  LET m1 == Call("fwu_erase_all", <<m>>)
      m2 == IF m1.f.bl_version = BL_V7 /\ m1.f.new_partition_table
            THEN Call("fwu_write_partition_table_v7", <<m1>>)
            ELSE IF m1.f.bl_version = BL_V8
            THEN Call("fwu_write_partition_table_v8", <<m1>>)
            ELSE m1
  IN IF Call("DoReflashChecks", <<m.f>>) < 0
     THEN Ret(Emit(m, "size_mismatch", 0), Call("DoReflashChecks", <<m.f>>))
     ELSE IF m1.ret < 0 THEN m1
     ELSE IF m2.ret < 0 THEN m2
     ELSE Call("DoReflashWrites", <<m2>>)

\* ------------------------------------------------- devices and images
BlockSize == 16

Zeros(n) == [i \in 1..n |-> 0]

\* The partition table of the modelled V7 / V8 controllers: firmware of two
\* blocks, UI configuration, flash configuration, global parameters and
\* guest code of one block each.
DevicePt ==
  <<PtEntry(CORE_CODE_PARTITION, 2, 16), PtEntry(CORE_CONFIG_PARTITION, 1, 48),
    PtEntry(FLASH_CONFIG_PARTITION, 1, 0), PtEntry(GLOBAL_PARAMETERS_PARTITION, 1, 8),
    PtEntry(GUEST_CODE_PARTITION, 1, 64)>>

\* The same partitions at other addresses
MovedPt ==
  <<PtEntry(CORE_CODE_PARTITION, 2, 24), PtEntry(CORE_CONFIG_PARTITION, 1, 56),
    PtEntry(FLASH_CONFIG_PARTITION, 1, 0), PtEntry(GLOBAL_PARAMETERS_PARTITION, 1, 8),
    PtEntry(GUEST_CODE_PARTITION, 1, 72)>>

DeviceIds == {"v6", "v7", "v8", "ub"}

DeviceOf(id) ==
  LET v6count == [ZeroBlkcount EXCEPT !.ui_firmware = 2, !.ui_config = 1]
      v7count == [ZeroBlkcount EXCEPT !.ui_firmware = 2, !.ui_config = 1,
                                      !.fl_config = 1, !.bl_config = 1,
                                      !.guest_code = 1]
  IN CASE id = "v6" -> Device(F34_V1, 6, "ui", BlockSize, v6count, <<>>,
                              <<1, 0, 0>>, <<0, 1, 0, 0>>)
       [] id = "v7" -> Device(F34_V2, 7, "ui", BlockSize, v7count, DevicePt,
                              <<1, 0, 0>>, <<0, 1, 0, 0>>)
       [] id = "v8" -> Device(F34_V2, 8, "ui", BlockSize, v7count, DevicePt,
                              <<1, 0, 0>>, <<0, 1, 0, 0>>)
       [] OTHER -> Device(F34_V2, 7, "ub", BlockSize, v7count, DevicePt,
                          <<1, 0, 0>>, <<0, 1, 0, 0>>)

\* A version-0x10 image for the V7 / V8 controllers: bootloader version ver,
\* build id fwid, firmware of fw_size bytes, flash configuration of
\* fl_size bytes holding the table pt.
Image10(ver, fwid, fw_size, fl_size, pt, cfg) ==
  Image(0, IMAGE_HEADER_VERSION_10,
        <<[Container(BL_CONTAINER, 256, 16) EXCEPT
             !.ver = ver,
             !.sub = <<Container(GLOBAL_PARAMETERS_CONTAINER, 272, BlockSize)>>],
          [Container(GENERAL_INFORMATION_CONTAINER, 288, 4) EXCEPT !.fwid = fwid],
          Container(CORE_CODE_CONTAINER, 304, fw_size),
          [Container(CORE_CONFIG_CONTAINER, 368, BlockSize) EXCEPT !.bytes = cfg],
          Container(GUEST_CODE_CONTAINER, 384, BlockSize)>>
          \o (IF fl_size = 0 THEN <<>>
              ELSE <<[Container(FLASH_CONFIG_CONTAINER, 400, fl_size) EXCEPT !.pt = pt]>>),
        NoHeader0506, <<>>, <<>>)

\* A version-06 image: build id fwid, firmware of fw_size bytes
Image06(fwid, fw_size, cfg) ==
  Image(0, IMAGE_HEADER_VERSION_06, <<>>,
        Header0506(6, TRUE, FALSE, FALSE, fw_size, BlockSize, 0, 0, 0, fwid),
        <<>>, cfg)

\* A TDAT image: a firmware record (id 2) of fw_len bytes, declared as
\* declared bytes long, and a configuration record (id 1) of one block.
ImageTdat(fwid, fw_len, declared) ==
  Image(TDAT_FORMAT_BYTE, 0, <<>>, NoHeader0506,
        <<TDAT_FORMAT_BYTE>>
          \o <<2, declared % 256, declared \div 256, 0>>
          \o <<3, fwid % 256, (fwid \div 256) % 256, (fwid \div 65536) % 256>>
          \o Zeros(fw_len - 4)
          \o <<1, 5 + 1 + BlockSize, 0, 0>>
          \o <<1, 0, 0, 1 + BlockSize, 0>> \o <<0>> \o <<0, 2, 0, 0>>
          \o Zeros(BlockSize - 4),
        <<>>)

ImageIds ==
  {"v6_new", "v6_cfg", "v6_odd", "v7_new", "v7_cfg", "v7_moved", "v8_fl", "v7_nofl",
   "bad",
   "tdat", "tdat_over"}

ImageOf(id) ==
  CASE id = "v6_new" -> Image06(512, 2 * BlockSize, <<0, 2, 0, 0>>)
    [] id = "v6_cfg" -> Image06(256, 2 * BlockSize, <<0, 2, 0, 0>>)
    [] id = "v6_odd" -> Image06(512, 2 * BlockSize + 1, <<0, 2, 0, 0>>)
    [] id = "v7_new" -> Image10(7, 512, 2 * BlockSize, BlockSize, DevicePt, <<0, 2, 0, 0>>)
    [] id = "v7_cfg" -> Image10(7, 256, 2 * BlockSize, BlockSize, DevicePt, <<0, 2, 0, 0>>)
    [] id = "v7_moved" -> Image10(7, 512, 2 * BlockSize, 2 * BlockSize, MovedPt,
                                  <<0, 2, 0, 0>>)
    [] id = "v8_fl" -> Image10(8, 512, 2 * BlockSize, 2 * BlockSize, DevicePt,
                               <<0, 2, 0, 0>>)
    [] id = "v7_nofl" -> Image10(7, 512, 3 * BlockSize, 0, <<>>, <<0, 2, 0, 0>>)
    [] id = "tdat" -> ImageTdat(512, 4 + 2 * BlockSize, 4 + 2 * BlockSize)
    [] id = "tdat_over" -> ImageTdat(512, 4 + 2 * BlockSize, 200)
    [] OTHER -> Image(0, 0, <<>>, NoHeader0506, <<>>, <<>>)

\* The bytes past the end of an image buffer: whatever the heap holds.
OobBytes == {0, 255}

\* The bytes of an image file user space uploads
ImageBytes == 17

\* ---------------------------------------------------------------- state

vars == <<fwu, dev, mutex, pc, loc, log, work, nfaults, unlocked_access>>

\* The most faults the environment injects in one behaviour.
MaxFaults == 1

\* No image: a NULL pointer
NoImage == "NULL"

\* struct synaptics_rmi4_fwu_handle after kzalloc
ZeroFwu ==
  [bl_version |-> 0, in_bl_mode |-> FALSE, in_ub_mode |-> FALSE,
   irq_enabled |-> FALSE, irq_sema |-> 0, force_update |-> FALSE,
   do_lockdown |-> FALSE, new_partition_table |-> FALSE, config_area |-> 0,
   image |-> NoImage, ext_data_source |-> NoImage, img |-> ZeroImg,
   flash_status |-> 0, command |-> 0,
   flash_properties |-> [has_disp_config |-> FALSE, has_pm_config |-> FALSE,
                         has_bl_config |-> FALSE],
   has_guest_code |-> FALSE, partitions |-> 0, block_size |-> 0,
   payload_length |-> 0, blkcount |-> ZeroBlkcount, phyaddr |-> ZeroPhyaddr,
   config_id |-> <<0, 0, 0, 0>>, wakeup_active |-> FALSE, image_size |-> 0,
   read_config_buf |-> 0, config_data |-> 0]

\* synaptics_rmi4_fwu_init on device d, no transfer failing: the machine
\* it leaves.
synaptics_rmi4_fwu_init(d) ==
  LET m1 == Call("fwu_scan_pdt", <<Machine(ZeroFwu, d, <<>>, NoFault, 0)>>)
      m2 == Call("fwu_read_f34_queries", <<Call("fwu_irq_enable", <<m1, TRUE>>)>>)
      m3 == Call("fwu_get_device_config_id", <<Call("fwu_irq_enable", <<m2, FALSE>>)>>)
      m4 == IF m1.f.in_ub_mode THEN m1 ELSE m3
  IN [m4 EXCEPT !.f.force_update = FALSE, !.f.do_lockdown = FALSE]

\* A process outside any handler
Idle == [op |-> "none", retval |-> 0, body_ret |-> 0, result |-> 0, block_count |-> 0]

Init ==
  \E id \in DeviceIds :
    /\ \E m \in {Call("synaptics_rmi4_fwu_init", <<Call("DeviceOf", <<id>>)>>)} :
         fwu = m.f /\ dev = m.d
    /\ mutex = NoProc
    /\ pc = [p \in Procs |-> "idle"]
    /\ loc = [p \in Procs |-> Idle]
    /\ log = <<>>
    /\ work = 0
    /\ nfaults = 0
    /\ unlocked_access = FALSE

\* The faults the environment may inject into a step that, run without
\* fault, makes n register transfers and c commands; budget tells whether a
\* fault is left to inject.
Faults(n, c, budget) ==
  {NoFault}
    \cup (IF budget
          THEN {Fault("io", at) : at \in 1..n}
                 \cup {Fault(kind, at) : kind \in {"hang", "fail", "noirq"}, at \in 1..c}
          ELSE {})

\* The machines the call of fn with arguments a leaves from m, over the
\* faults the environment may inject.
Outcomes(fn, m, a, budget) ==
  LET plain == Call(fn, <<m>> \o a)
  IN {Call(fn, <<[m EXCEPT !.flt = flt]>> \o a) :
        flt \in Faults(plain.n, plain.c, budget)}

\* The machine a step starts from, with the session log ev
Start(ev) == Machine(fwu, dev, ev, NoFault, 0)

\* fwu_do_lockdown writing the lockdown data whatever the device reports
fwu_do_lockdown_unchecked(m) ==
  LET m1 == Call("fwu_enter_flash_prog", <<m>>)
      m2 == synaptics_rmi4_reg(m1)
  IN IF m1.ret < 0 THEN m1
     ELSE IF m2.ret < 0 THEN m2
     ELSE Call("fwu_write_lockdown", <<m2>>)

\* ------------------------------------------------------------- reflash
\* fwu_do_lockdown
fwu_do_lockdown(m) ==
  LET m1 == Call("fwu_enter_flash_prog", <<m>>)
      m2 == synaptics_rmi4_reg(m1)
  IN IF m1.ret < 0 THEN m1
     ELSE IF m2.ret < 0 THEN m2
     ELSE IF ~m2.d.unlocked THEN Ret(m2, 0)
     ELSE Call("fwu_write_lockdown", <<m2>>)

\* fwu_start_reflash, the decoding of the image (lines 3510-3532): [m, go].
\* The value fwu_parse_tdat_image returns is dropped.
ReflashDecode(m, oob) ==
  LET image == Call("ImageOf", <<m.f.image>>)
      t == Call("fwu_parse_tdat_image", <<m.f, image, oob>>)
      r == Call("fwu_parse_image_info", <<m.f, image>>)
      mt == [m EXCEPT !.f = t.f]
      mr == [m EXCEPT !.f = r.f]
  IN IF fwu_tdat_image_format(image)
     THEN [m |-> IF t.ret < 0 THEN Emit(mt, "decode_failed", 0) ELSE mt, go |-> TRUE]
     ELSE IF r.ret < 0
     THEN [m |-> Ret(Emit(mr, "decode_failed", 0), r.ret), go |-> FALSE]
     ELSE IF mr.f.bl_version # mr.f.img.bl_version
     THEN [m |-> Ret(mr, -EINVAL), go |-> FALSE]
     ELSE IF ~mr.f.force_update /\ mr.f.new_partition_table
     THEN [m |-> Ret(mr, -EINVAL), go |-> FALSE]
     ELSE [m |-> Ret(mr, 0), go |-> TRUE]

ReflashFlashUnerased(m, flash_area) ==
  CASE flash_area = UI_FIRMWARE -> Call("fwu_do_reflash", <<m>>)
    [] flash_area = UI_CONFIG ->
         IF fwu_check_ui_configuration_size(m.f) < 0
         THEN Ret(Emit(m, "size_mismatch", 0), -EINVAL)
         ELSE Call("fwu_write_ui_configuration",
                   <<[m EXCEPT !.f.config_area = UI_CONFIG_AREA]>>)
    [] OTHER -> m

\* fwu_start_reflash, the flashing proper (lines 3573-3592) for flash_area
ReflashFlash(m, flash_area) ==
  CASE flash_area = UI_FIRMWARE -> Call("fwu_do_reflash", <<m>>)
    [] flash_area = UI_CONFIG ->
         LET m1 == Call("fwu_erase_configuration", <<[m EXCEPT !.f.config_area = UI_CONFIG_AREA]>>)
         IN IF fwu_check_ui_configuration_size(m.f) < 0
            THEN Ret(Emit(m, "size_mismatch", 0), -EINVAL)
            ELSE IF m1.ret < 0 THEN m1
            ELSE Call("fwu_write_ui_configuration", <<m1>>)
    [] OTHER -> m

ReflashGoEntersFirst(m) ==
  LET m4 == Call("fwu_go_nogo", <<m>>)
      flash_area == m4.ret
      m5 == Emit(Ret(m4, m.ret), "flash_area", flash_area)
      m6 == Call("fwu_enter_flash_prog", <<m5>>)
  IN IF m6.ret < 0 THEN Ret(Call("fwu_reset_device", <<m6>>), m6.ret)
     ELSE IF flash_area = NONE THEN m6
     ELSE Call("ReflashFlash", <<m6, flash_area>>)

\* fwu_start_reflash, from go/no-go to the exit label (3557-3598); the
\* decision is kept in the session log.
ReflashGo(m) ==
  LET m4 == Call("fwu_go_nogo", <<m>>)
      flash_area == m4.ret
      m5 == Emit(Ret(m4, m.ret), "flash_area", flash_area)
      m6 == Call("fwu_enter_flash_prog", <<m5>>)
  IN IF flash_area = NONE THEN m5
     ELSE IF m6.ret < 0 THEN Ret(Call("fwu_reset_device", <<m6>>), m6.ret)
     ELSE Call("ReflashFlash", <<m6, flash_area>>)

\* fwu_start_reflash from the status read to the exit label (3534-3598)
ReflashRun(m) ==
  LET m1 == Call("fwu_read_flash_status", <<m>>)
      m2 == IF m1.f.in_bl_mode THEN [m1 EXCEPT !.f.irq_sema = 0] ELSE m1
      lockdown == m2.f.do_lockdown /\ m2.f.img.lockdown.data # NullPtr
                    /\ m2.f.bl_version \in {BL_V5, BL_V6}
  IN IF m1.ret < 0 THEN m1
     ELSE IF lockdown
     THEN LET l == Call("fwu_do_lockdown", <<m2>>)
          IN Call("ReflashGo", <<Ret(Call("fwu_reset_device", <<l>>), l.ret)>>)
     ELSE Call("ReflashGo", <<m2>>)

\* fwu_start_reflash from the lock to the exit label (3482-3598); firmware
\* is what request_firmware delivers (NoImage when it fails).
ReflashToExit(m, firmware, oob) ==
  LET m1 == Call("fwu_irq_enable", <<m, TRUE>>)
      m2 == IF m1.f.image = NoImage THEN [m1 EXCEPT !.f.image = firmware] ELSE m1
      d == Call("ReflashDecode", <<m2, oob>>)
  IN IF m2.f.image = NoImage THEN Ret(Emit(m2, "no_image", 0), -EINVAL)
     ELSE IF ~d.go THEN d.m
     ELSE Call("ReflashRun", <<d.m>>)

\* An exit path of fwu_start_reflash that rescans the descriptor table
\* before it resets the device.
ReflashFromExitRescanFirst(m) ==
  LET m1 == Call("fwu_scan_pdt", <<Call("fwu_irq_enable", <<m, FALSE>>)>>)
      m2 == Call("fwu_reset_device", <<m1>>)
      m3 == IF ~m2.f.in_ub_mode THEN Call("fwu_read_f34_queries", <<m2>>) ELSE m2
      m4 == Call("fwu_check_intr_en", <<m3>>)
  IN Call("fwu_get_device_config_id", <<m4>>)

\* fwu_start_reflash from the exit label to the unlock (3600-3633)
ReflashFromExit(m) ==
  LET m1 == Call("fwu_reset_device", <<Call("fwu_irq_enable", <<m, FALSE>>)>>)
      m2 == Call("fwu_scan_pdt", <<m1>>)
      m3 == IF ~m2.f.in_ub_mode THEN Call("fwu_read_f34_queries", <<m2>>) ELSE m2
      m4 == Call("fwu_check_intr_en", <<m3>>)
  IN Call("fwu_get_device_config_id", <<m4>>)

\* --------------------------------------------------------- read config
\* fwu_do_read_config before the lock (3074-3119): [ret, block_count]
ReadConfigBlockCount(f) ==
  CASE f.config_area = UI_CONFIG_AREA -> [ret |-> 0, block_count |-> f.blkcount.ui_config]
    [] f.config_area = DP_CONFIG_AREA ->
         IF ~f.flash_properties.has_disp_config THEN [ret |-> -EINVAL, block_count |-> 0]
         ELSE [ret |-> 0, block_count |-> f.blkcount.dp_config]
    [] f.config_area = PM_CONFIG_AREA ->
         IF ~f.flash_properties.has_pm_config THEN [ret |-> -EINVAL, block_count |-> 0]
         ELSE [ret |-> 0, block_count |-> f.blkcount.pm_config]
    [] f.config_area = BL_CONFIG_AREA ->
         IF ~f.flash_properties.has_bl_config THEN [ret |-> -EINVAL, block_count |-> 0]
         ELSE [ret |-> 0, block_count |-> f.blkcount.bl_config]
    [] OTHER -> [ret |-> -EINVAL, block_count |-> 0]

\* fwu_do_read_config from the lock to the exit label (3121-3136)
ReadConfigToExit(m, block_count) ==
  LET config_area == m.f.config_area
      m1 == Call("fwu_enter_flash_prog", <<m>>)
  IN IF m1.ret < 0 THEN m1
     ELSE Call("fwu_read_f34_blocks", <<[m1 EXCEPT !.f.config_area = config_area],
                              block_count, CMD_READ_CONFIG>>)

\* -------------------------------------------------------- write config
\* fwu_start_write_config before the lock (3248-3290), on device d: [ret, f]
WriteConfigChecks(f, d) ==
  LET r == Call("fwu_parse_image_info", <<f, Call("ImageOf", <<f.image>>)>>)
      g == r.f
  IN IF r.ret < 0 THEN [ret |-> -EINVAL, f |-> g]
     ELSE IF g.config_area = UI_CONFIG_AREA
     THEN IF ~g.img.contains_firmware_id THEN [ret |-> -EINVAL, f |-> g]
          ELSE IF fwu_get_device_firmware_id(d) # g.img.firmware_id
          THEN [ret |-> -EINVAL, f |-> g]
          ELSE [ret |-> fwu_check_ui_configuration_size(g), f |-> g]
     ELSE IF g.config_area = DP_CONFIG_AREA
     THEN IF ~g.flash_properties.has_disp_config \/ ~g.img.contains_disp_config
          THEN [ret |-> -EINVAL, f |-> g]
          ELSE [ret |-> fwu_check_dp_configuration_size(g), f |-> g]
     ELSE [ret |-> -EINVAL, f |-> g]

\* fwu_start_write_config from the lock to the exit label (3296-3326)
WriteConfigToExit(m) ==
  LET config_area == m.f.config_area
      m1 == Call("fwu_enter_flash_prog", <<m>>)
      m2 == Call("fwu_erase_configuration", <<[m1 EXCEPT !.f.config_area = config_area]>>)
  IN IF m1.ret < 0 THEN m1
     ELSE IF m2.ret < 0 THEN m2
     ELSE CASE m2.f.config_area = UI_CONFIG_AREA -> Call("fwu_write_ui_configuration", <<m2>>)
            [] m2.f.config_area = DP_CONFIG_AREA -> Call("fwu_write_dp_configuration", <<m2>>)
            [] OTHER -> m2

\* fwu_start_write_config from the exit label to the unlock (3328-3337): the
\* device is reset only when config_area names the UI or the display area.
WriteConfigFromExit(m) ==
  IF m.f.config_area \in {UI_CONFIG_AREA, DP_CONFIG_AREA}
  THEN Call("fwu_reset_device", <<m>>)
  ELSE m

\* ---------------------------------------------------- write guest code
\* fwu_start_write_guest_code before the lock (3188-3204), on device d:
\* [ret, f]
WriteGuestCodeChecks(f, d) ==
  LET r == Call("fwu_parse_image_info", <<f, Call("ImageOf", <<f.image>>)>>)
  IN IF r.ret < 0 THEN [ret |-> -EINVAL, f |-> r.f]
     ELSE IF ~r.f.has_guest_code \/ ~r.f.img.contains_guest_code
     THEN [ret |-> -EINVAL, f |-> r.f]
     ELSE [ret |-> 0, f |-> r.f]

\* fwu_start_write_guest_code from the lock to the exit label (3212-3226)
WriteGuestCodeToExit(m) ==
  LET m1 == Call("fwu_enter_flash_prog", <<m>>)
      m2 == Call("fwu_erase_guest_code", <<m1>>)
  IN IF m1.ret < 0 THEN m1
     ELSE IF fwu_check_guest_code_size(m1.f) < 0
     THEN Ret(Emit(m1, "size_mismatch", 0), -EINVAL)
     ELSE IF m2.ret < 0 THEN m2
     ELSE Call("fwu_write_guest_code", <<m2>>)

\* ----------------------------------------------------------- erase all
\* fwu_sysfs_erase_store, the erase proper (4317-4325)
EraseStoreErase(m) ==
  Call("fwu_irq_enable", <<Call("fwu_erase_all", <<Call("fwu_irq_enable", <<m, TRUE>>)>>), FALSE>>)

\* fwu_sysfs_erase_store from the lock to reset_and_exit (4302-4325)
EraseStoreToExit(m) ==
  LET m1 == Call("fwu_write_f34_command", <<Call("fwu_irq_enable", <<m, TRUE>>), CMD_ENABLE_FLASH_PROG>>)
      m2 == Call("fwu_wait_for_idle", <<m1>>)
      m3 == Ret(Call("fwu_irq_enable", <<m2, FALSE>>), m2.ret)
  IN IF m.f.in_bl_mode THEN Call("EraseStoreErase", <<m>>)
     ELSE IF m1.ret < 0 THEN m1
     ELSE IF m3.ret < 0 \/ ~m3.f.in_bl_mode THEN m3
     ELSE Call("EraseStoreErase", <<m3>>)

\* fwu_sysfs_erase_store from reset_and_exit to the unlock (4327-4335)
EraseStoreFromExit(m) == Call("fwu_scan_pdt", <<Call("fwu_reset_device", <<m>>)>>)

\* ------------------------------------------------------------ recovery
\* What the microbootloader does with a command written to the F35 chunk
\* command register.
F35Command(m, code) ==
  LET k == m.c + 1
      m1 == [m EXCEPT !.c = k]
  IN IF m.flt.at = k /\ m.flt.kind = "fail"
     THEN [m1 EXCEPT !.d.status = 1]
     ELSE CASE code = CMD_F35_ERASE_ALL ->
                 [m1 EXCEPT !.d.status = 0, !.d.ub_erased = TRUE, !.d.ub_written = FALSE]
            [] code = CMD_F35_WRITE_CHUNK ->
                 [m1 EXCEPT !.d.ub_written = m.d.ub_erased]
            [] OTHER -> m1

\* fwu_recovery_erase_all
fwu_recovery_erase_all(m) ==
  LET m1 == synaptics_rmi4_reg(m)
  IN IF m1.ret < 0 THEN m1
     ELSE Call("fwu_recovery_check_status", <<Emit(Call("F35Command", <<m1, CMD_F35_ERASE_ALL>>),
                                         "cmd", CMD_F35_ERASE_ALL)>>)

\* The loop of fwu_recovery_write_chunk from the chunk numbered chunk on.
\* chunk_ptr is the offset in the image of the byte the chunk starts at;
\* chunk, chunk_total and bytes_written are unsigned short. Each pass fills
\* the F35_CHUNK_SIZE data bytes of buf with zeroes, copies chunk_size image
\* bytes over them when secure_memcpy finds that many left, and writes buf
\* with the command byte that ends it in one register write: "chunk" is the
\* offset of the image bytes the write carries and "chunk_bytes" their
\* number, the rest of the data bytes being zero.
RecoveryChunkLoop(m, chunk, chunk_total, chunk_spare, bytes_written, chunk_ptr) ==
  LET chunk_size == IF chunk_spare # 0 /\ chunk = chunk_total - 1
                    THEN chunk_spare ELSE F35_CHUNK_SIZE
      src_size == m.f.image_size - bytes_written
      copied == IF chunk_size > F35_CHUNK_SIZE + 1 \/ chunk_size > src_size
                THEN 0 ELSE chunk_size
      m1 == synaptics_rmi4_reg(m)
      m2 == Emit(Emit(m1, "chunk", chunk_ptr), "chunk_bytes", copied)
  IN IF ~(chunk < chunk_total) THEN Ret(m, 0)
     ELSE IF m1.ret < 0 THEN m1
     ELSE Call("RecoveryChunkLoop",
               <<Emit(Call("F35Command", <<m2, CMD_F35_WRITE_CHUNK>>),
                      "cmd", CMD_F35_WRITE_CHUNK),
                 (chunk + 1) % USHRT_MOD, chunk_total, chunk_spare,
                 (bytes_written + chunk_size) % USHRT_MOD, chunk_ptr + chunk_size>>)

\* fwu_recovery_write_chunk
fwu_recovery_write_chunk(m) ==
  LET m1 == synaptics_rmi4_reg(m)
      chunk_spare == m.f.image_size % F35_CHUNK_SIZE
      chunk_total == (((m.f.image_size \div F35_CHUNK_SIZE) % USHRT_MOD)
                        + (IF chunk_spare # 0 THEN 1 ELSE 0)) % USHRT_MOD
      m2 == Call("RecoveryChunkLoop", <<m1, 0, chunk_total, chunk_spare, 0, 0>>)
  IN IF m1.ret < 0 THEN m1
     ELSE IF m2.ret < 0 THEN m2
     ELSE Call("fwu_recovery_check_status", <<m2>>)

\* fwu_recovery_reset
fwu_recovery_reset(m) ==
  LET m1 == synaptics_rmi4_reg(m)
  IN IF m1.ret < 0 THEN m1
     ELSE Ret(Emit(Call("F35Command", <<m1, CMD_F35_RESET>>), "cmd", CMD_F35_RESET), 0)

\* fwu_start_recovery from the lock to the exit label (3802-3850);
\* irq_disabled is what rmi4_data->irq_enable(rmi4_data, false) returns.
RecoveryToExit(m, irq_disabled) ==
  LET m0 == [m EXCEPT !.f.wakeup_active = TRUE]
      m1 == Call("fwu_recovery_erase_all", <<Call("fwu_irq_enable", <<m0, TRUE>>)>>)
      m2 == Call("fwu_recovery_write_chunk", <<m1>>)
  IN IF irq_disabled < 0 THEN Ret(m0, irq_disabled)
     ELSE IF m1.ret < 0 THEN m1
     ELSE IF m2.ret < 0 THEN m2
     ELSE Call("fwu_recovery_reset", <<m2>>)

\* fwu_start_recovery from the exit label to the unlock (3852-3861)
RecoveryFromExit(m) ==
  [Call("fwu_irq_enable", <<Call("fwu_reset_device", <<m>>), FALSE>>) EXCEPT !.f.wakeup_active = FALSE]

\* ------------------------------------------------------------ calls
\* A call of the function named fn with the arguments a
Call(fn, a) ==
  CASE fn = "fwu_parse_partition_table" ->
         fwu_parse_partition_table(a[1], a[2], a[3], a[4], a[5])
    [] fn = "fwu_compare_partition_tables" ->
         fwu_compare_partition_tables(a[1])
    [] fn = "fwu_parse_image_header_10_bl_container" ->
         fwu_parse_image_header_10_bl_container(a[1], a[2])
    [] fn = "fwu_parse_image_header_10" ->
         fwu_parse_image_header_10(a[1], a[2])
    [] fn = "fwu_parse_image_header_05_06" ->
         fwu_parse_image_header_05_06(a[1], a[2])
    [] fn = "fwu_parse_image_info" ->
         fwu_parse_image_info(a[1], a[2])
    [] fn = "TdatLength" ->
         TdatLength(a[1], a[2], a[3])
    [] fn = "TdatFirstPass" ->
         TdatFirstPass(a[1], a[2], a[3], a[4])
    [] fn = "fwu_tdat_config_set" ->
         fwu_tdat_config_set(a[1], a[2], a[3], a[4], a[5], a[6])
    [] fn = "fwu_tdat_section_offset" ->
         fwu_tdat_section_offset(a[1], a[2], a[3])
    [] fn = "TdatSecondPass" ->
         TdatSecondPass(a[1], a[2], a[3], a[4], a[5])
    [] fn = "fwu_parse_tdat_image" ->
         fwu_parse_tdat_image(a[1], a[2], a[3])
    [] fn = "DeviceCommand" ->
         DeviceCommand(a[1], a[2], a[3])
    [] fn = "reset_device" ->
         reset_device(a[1])
    [] fn = "fwu_read_flash_status" ->
         fwu_read_flash_status(a[1])
    [] fn = "fwu_read_interrupt_status" ->
         fwu_read_interrupt_status(a[1])
    [] fn = "fwu_irq_enable" ->
         fwu_irq_enable(a[1], a[2])
    [] fn = "fwu_wait_for_idle" ->
         fwu_wait_for_idle(a[1])
    [] fn = "fwu_reset_device" ->
         fwu_reset_device(a[1])
    [] fn = "fwu_write_f34_v7_command_single_transaction" ->
         fwu_write_f34_v7_command_single_transaction(a[1], a[2])
    [] fn = "fwu_write_f34_v7_command" ->
         fwu_write_f34_v7_command(a[1], a[2])
    [] fn = "fwu_write_f34_v5v6_command" ->
         fwu_write_f34_v5v6_command(a[1], a[2])
    [] fn = "fwu_write_f34_command" ->
         fwu_write_f34_command(a[1], a[2])
    [] fn = "fwu_write_f34_v7_partition_id" ->
         fwu_write_f34_v7_partition_id(a[1], a[2], a[3])
    [] fn = "fwu_write_f34_partition_id" ->
         fwu_write_f34_partition_id(a[1], a[2])
    [] fn = "fwu_recovery_check_status" ->
         fwu_recovery_check_status(a[1])
    [] fn = "ScanPdtLoop" ->
         ScanPdtLoop(a[1], a[2], a[3])
    [] fn = "fwu_scan_pdt" ->
         fwu_scan_pdt(a[1])
    [] fn = "fwu_read_f34_v7_partition_table" ->
         fwu_read_f34_v7_partition_table(a[1])
    [] fn = "fwu_read_f34_v7_queries" ->
         fwu_read_f34_v7_queries(a[1])
    [] fn = "fwu_read_f34_v5v6_queries" ->
         fwu_read_f34_v5v6_queries(a[1])
    [] fn = "fwu_read_f34_queries" ->
         fwu_read_f34_queries(a[1])
    [] fn = "fwu_get_device_config_id" ->
         fwu_get_device_config_id(a[1])
    [] fn = "ConfigIdLoop" ->
         ConfigIdLoop(a[1], a[2], a[3], a[4])
    [] fn = "fwu_go_nogo" ->
         fwu_go_nogo(a[1])
    [] fn = "fwu_check_intr_en" ->
         fwu_check_intr_en(a[1])
    [] fn = "fwu_enter_flash_prog" ->
         fwu_enter_flash_prog(a[1])
    [] fn = "DeviceProgrammed" ->
         DeviceProgrammed(a[1], a[2])
    [] fn = "WriteV7Loop" ->
         WriteV7Loop(a[1], a[2], a[3], a[4], a[5])
    [] fn = "fwu_write_f34_v7_blocks" ->
         fwu_write_f34_v7_blocks(a[1], a[2], a[3])
    [] fn = "WriteV5V6Loop" ->
         WriteV5V6Loop(a[1], a[2], a[3], a[4])
    [] fn = "fwu_write_f34_v5v6_blocks" ->
         fwu_write_f34_v5v6_blocks(a[1], a[2], a[3])
    [] fn = "fwu_write_f34_blocks" ->
         fwu_write_f34_blocks(a[1], a[2], a[3])
    [] fn = "ReadV7Loop" ->
         ReadV7Loop(a[1], a[2], a[3], a[4], a[5])
    [] fn = "fwu_read_f34_v7_blocks" ->
         fwu_read_f34_v7_blocks(a[1], a[2], a[3])
    [] fn = "ReadV5V6Loop" ->
         ReadV5V6Loop(a[1], a[2], a[3], a[4])
    [] fn = "fwu_read_f34_v5v6_blocks" ->
         fwu_read_f34_v5v6_blocks(a[1], a[2], a[3])
    [] fn = "fwu_read_f34_blocks" ->
         fwu_read_f34_blocks(a[1], a[2], a[3])
    [] fn = "fwu_write_firmware" ->
         fwu_write_firmware(a[1])
    [] fn = "fwu_erase_configuration" ->
         fwu_erase_configuration(a[1])
    [] fn = "fwu_erase_guest_code" ->
         fwu_erase_guest_code(a[1])
    [] fn = "EraseAllTail" ->
         EraseAllTail(a[1])
    [] fn = "fwu_erase_all" ->
         fwu_erase_all(a[1])
    [] fn = "fwu_write_configuration" ->
         fwu_write_configuration(a[1], a[2])
    [] fn = "fwu_write_ui_configuration" ->
         fwu_write_ui_configuration(a[1])
    [] fn = "fwu_write_dp_configuration" ->
         fwu_write_dp_configuration(a[1])
    [] fn = "fwu_write_flash_configuration" ->
         fwu_write_flash_configuration(a[1])
    [] fn = "fwu_write_guest_code" ->
         fwu_write_guest_code(a[1])
    [] fn = "fwu_write_lockdown" ->
         fwu_write_lockdown(a[1])
    [] fn = "fwu_write_partition_table_v8" ->
         fwu_write_partition_table_v8(a[1])
    [] fn = "fwu_write_partition_table_v7" ->
         fwu_write_partition_table_v7(a[1])
    [] fn = "DoReflashChecks" ->
         DoReflashChecks(a[1])
    [] fn = "DoReflashWrites" ->
         DoReflashWrites(a[1])
    [] fn = "fwu_do_reflash" ->
         fwu_do_reflash(a[1])
    [] fn = "DeviceOf" ->
         DeviceOf(a[1])
    [] fn = "ImageOf" ->
         ImageOf(a[1])
    [] fn = "synaptics_rmi4_fwu_init" ->
         synaptics_rmi4_fwu_init(a[1])
    [] fn = "fwu_do_lockdown" ->
         fwu_do_lockdown(a[1])
    [] fn = "ReflashDecode" ->
         ReflashDecode(a[1], a[2])
    [] fn = "Outcomes" ->
         Outcomes(a[1], a[2], a[3], a[4])
    [] fn = "ReflashGo" ->
         ReflashGo(a[1])
    [] fn = "ReflashFlash" ->
         ReflashFlash(a[1], a[2])
    [] fn = "ReflashRun" ->
         ReflashRun(a[1])
    [] fn = "ReflashToExit" ->
         ReflashToExit(a[1], a[2], a[3])
    [] fn = "ReflashFromExit" ->
         ReflashFromExit(a[1])
    [] fn = "ReadConfigToExit" ->
         ReadConfigToExit(a[1], a[2])
    [] fn = "WriteConfigChecks" ->
         WriteConfigChecks(a[1], a[2])
    [] fn = "WriteConfigToExit" ->
         WriteConfigToExit(a[1])
    [] fn = "WriteConfigFromExit" ->
         WriteConfigFromExit(a[1])
    [] fn = "WriteGuestCodeChecks" ->
         WriteGuestCodeChecks(a[1], a[2])
    [] fn = "WriteGuestCodeToExit" ->
         WriteGuestCodeToExit(a[1])
    [] fn = "EraseStoreErase" ->
         EraseStoreErase(a[1])
    [] fn = "EraseStoreToExit" ->
         EraseStoreToExit(a[1])
    [] fn = "EraseStoreFromExit" ->
         EraseStoreFromExit(a[1])
    [] fn = "F35Command" ->
         F35Command(a[1], a[2])
    [] fn = "fwu_recovery_erase_all" ->
         fwu_recovery_erase_all(a[1])
    [] fn = "RecoveryChunkLoop" ->
         RecoveryChunkLoop(a[1], a[2], a[3], a[4], a[5], a[6])
    [] fn = "fwu_recovery_write_chunk" ->
         fwu_recovery_write_chunk(a[1])
    [] fn = "fwu_recovery_reset" ->
         fwu_recovery_reset(a[1])
    [] fn = "RecoveryToExit" ->
         RecoveryToExit(a[1], a[2])
    [] fn = "RecoveryFromExit" ->
         RecoveryFromExit(a[1])

\* ------------------------------------------------------------- actions
\* What a store handler returns on success: count, the bytes consumed.
Count == 1

\* What a store handler returns for retval
Result(retval) == IF retval < 0 THEN retval ELSE Count

\* A handler may start in process p.  The processes are interchangeable, so
\* of two idle ones the first takes the request; the environment injects
\* its faults into the handlers already started.
MayStart(p, cost) ==
  /\ pc[p] = "idle"
  /\ work + cost <= MaxWork
  /\ nfaults = 0
  /\ \A q \in Procs : (q # p /\ pc[q] = "idle") => p = "p1"

\* An operation of process p that returns result r before it takes the lock
Returns(p, op, r) ==
  /\ loc' = [loc EXCEPT ![p] = [Idle EXCEPT !.op = op, !.retval = r, !.result = r]]
  /\ pc' = pc
  /\ work' = work + OpWork

\* A store of process p that returns result r
Stored(p, op, r) ==
  /\ loc' = [loc EXCEPT ![p] = [Idle EXCEPT !.op = op, !.retval = r, !.result = r]]
  /\ pc' = pc
  /\ work' = work + StoreWork

\* A handler of process p that goes on to take the session lock
Proceeds(p, op, block_count) ==
  /\ loc' = [loc EXCEPT ![p] = [Idle EXCEPT !.op = op, !.block_count = block_count]]
  /\ pc' = [pc EXCEPT ![p] = "lock"]
  /\ work' = work + OpWork

\* A lock that does not wait: process p takes it whoever holds it.
mutex_lock_unguarded(p) ==
  /\ pc[p] = "lock"
  /\ mutex' = p

\* mutex_lock(&rmi4_data->rmi4_exp_init_mutex) by process p, waiting at the
\* lock: it blocks while the lock is held.
mutex_lock(p) ==
  /\ pc[p] = "lock"
  /\ mutex = NoProc
  /\ mutex' = p

\* mutex_unlock(&rmi4_data->rmi4_exp_init_mutex) by process p
mutex_unlock(p) ==
  mutex' = IF mutex = p THEN NoProc ELSE mutex

\* The session log when the lock is taken
Locked == <<Event("lock", 0)>>

\* A step that ran the machine to m: the handle, the device and the session
\* log it leaves; a register transfer made while the lock is not held is
\* recorded.
Commit(m, held) ==
  /\ fwu' = m.f
  /\ dev' = m.d
  /\ log' = m.ev
  /\ nfaults' = IF m.flt = NoFault THEN nfaults ELSE nfaults + 1
  /\ unlocked_access' = (unlocked_access \/ (m.n > 0 /\ ~held))

\* Process p, waiting at the lock, takes it and runs body with the
\* arguments a to its exit label.
LockedBody(p, body, a) ==
  /\ mutex_lock(p)
  /\ \E m \in Call("Outcomes", <<body, Start(Locked), a, nfaults < MaxFaults>>) :
       /\ Commit(m, TRUE)
       /\ loc' = [loc EXCEPT ![p].retval = m.ret, ![p].body_ret = m.ret]
  /\ pc' = [pc EXCEPT ![p] = "exit"]
  /\ UNCHANGED work

\* Process p runs exit from its exit label and unlocks; the value it will
\* return is the one exit leaves when overwrite holds.
LockedExit(p, exit, overwrite) ==
  /\ pc[p] = "exit"
  /\ \E m \in Call("Outcomes", <<exit, Start(log), <<>>, nfaults < MaxFaults>>) :
       /\ Commit(Emit(m, "unlock", 0), mutex = p)
       /\ loc' = [loc EXCEPT ![p].retval = IF overwrite THEN m.ret ELSE @]
  /\ mutex_unlock(p)
  /\ pc' = [pc EXCEPT ![p] = "return"]
  /\ UNCHANGED work

\* Process p returns result after the unlock, leaving handle f
AfterUnlock(p, f, result) ==
  /\ pc[p] = "return"
  /\ fwu' = f
  /\ loc' = [loc EXCEPT ![p].result = result]
  /\ pc' = [pc EXCEPT ![p] = "idle"]
  /\ log' = <<>>
  /\ UNCHANGED <<dev, mutex, work, nfaults, unlocked_access>>

\* fwu_sysfs_image_size_store and fwu_sysfs_store_image: user space uploads
\* an image into ext_data_source.
fwu_sysfs_store_image(p) ==
  /\ MayStart(p, StoreWork)
  /\ \E id \in ImageIds :
       fwu' = [fwu EXCEPT !.ext_data_source = id, !.image_size = ImageBytes]
  /\ Stored(p, "store_image", Count)
  /\ UNCHANGED <<dev, mutex, log, nfaults, unlocked_access>>

\* fwu_sysfs_force_reflash_store
fwu_sysfs_force_reflash_store(p) ==
  /\ MayStart(p, StoreWork)
  /\ \E input \in {0, 1} :
       IF input # 1
       THEN fwu' = fwu /\ Stored(p, "force_reflash", -EINVAL)
       ELSE fwu' = [fwu EXCEPT !.force_update = TRUE]
              /\ Stored(p, "force_reflash", Count)
  /\ UNCHANGED <<dev, mutex, log, nfaults, unlocked_access>>

\* The configuration areas user space selects
ConfigAreas == {UI_CONFIG_AREA, BL_CONFIG_AREA, DP_CONFIG_AREA}

\* fwu_sysfs_config_area_store
fwu_sysfs_config_area_store(p) ==
  /\ MayStart(p, StoreWork)
  /\ \E config_area \in ConfigAreas : fwu' = [fwu EXCEPT !.config_area = config_area]
  /\ Stored(p, "config_area", Count)
  /\ UNCHANGED <<dev, mutex, log, nfaults, unlocked_access>>

\* The exit label of fwu_sysfs_do_reflash_store leaving the force as it is
ReflashStoreExitForceKept(f) ==
  [f EXCEPT !.ext_data_source = NoImage, !.image = NoImage, !.do_lockdown = FALSE]

\* The exit label of fwu_sysfs_do_reflash_store
ReflashStoreExit(f) ==
  [f EXCEPT !.ext_data_source = NoImage, !.image = NoImage,
            !.force_update = FALSE, !.do_lockdown = FALSE]

\* synaptics_fw_updater started whatever mode the last scan found
fwu_sysfs_do_reflash_store_any_mode(p) ==
  /\ MayStart(p, OpWork)
  /\ \E name \in {"ok", "foreign", "long"} :
       IF name = "long" \/ (~fwu.force_update /\ name = "foreign")
       THEN fwu' = ReflashStoreExit(fwu) /\ Returns(p, "reflash", -EINVAL)
       ELSE fwu' = [fwu EXCEPT !.image = fwu.ext_data_source, !.wakeup_active = TRUE]
              /\ Proceeds(p, "reflash", 0)
  /\ UNCHANGED <<dev, mutex, log, nfaults, unlocked_access>>

\* fwu_sysfs_do_reflash_store and synaptics_fw_updater up to the lock: name
\* tells whether the file name is too long ("long"), lacks the vendor prefix
\* or the product id ("foreign"), or is accepted ("ok").
fwu_sysfs_do_reflash_store(p) ==
  /\ MayStart(p, OpWork)
  /\ \E name \in {"ok", "foreign", "long"} :
       IF name = "long" \/ (~fwu.force_update /\ name = "foreign")
       THEN fwu' = ReflashStoreExit(fwu) /\ Returns(p, "reflash", -EINVAL)
       ELSE IF fwu.in_ub_mode
       THEN fwu' = ReflashStoreExit(fwu) /\ Returns(p, "reflash", -ENODEV)
       ELSE fwu' = [fwu EXCEPT !.image = fwu.ext_data_source, !.wakeup_active = TRUE]
              /\ Proceeds(p, "reflash", 0)
  /\ UNCHANGED <<dev, mutex, log, nfaults, unlocked_access>>

\* The firmware files the file system holds
FirmwareFiles == {"v6_new", "v7_new"}

\* What request_firmware may deliver (NoImage when it fails); it is not
\* called when an image was uploaded.
Firmware == IF fwu.image = NoImage THEN FirmwareFiles \cup {NoImage} ELSE {NoImage}

\* The bytes a decoder may read past the end of image id
OobOf(id) == IF id \in {"tdat", "tdat_over"} THEN OobBytes ELSE {0}

\* fwu_start_reflash from the lock to the exit label
fwu_start_reflash(p) ==
  /\ loc[p].op = "reflash"
  /\ \E firmware \in Firmware :
       \E oob \in OobOf(IF fwu.image = NoImage THEN firmware ELSE fwu.image) :
         LockedBody(p, "ReflashToExit", <<firmware, oob>>)

\* fwu_start_reflash from the exit label to the unlock
fwu_start_reflash_exit(p) ==
  /\ loc[p].op = "reflash"
  /\ LockedExit(p, "ReflashFromExit", TRUE)

\* The return of fwu_start_reflash, synaptics_fw_updater and
\* fwu_sysfs_do_reflash_store after the unlock
fwu_sysfs_do_reflash_store_return(p) ==
  /\ loc[p].op = "reflash"
  /\ AfterUnlock(p, ReflashStoreExit([fwu EXCEPT !.wakeup_active = FALSE]),
                 Result(loc[p].retval))

\* fwu_sysfs_read_config_store and fwu_do_read_config up to the lock
fwu_sysfs_read_config_store(p) ==
  /\ MayStart(p, OpWork)
  /\ \E input \in {0, 1} :
       LET r == ReadConfigBlockCount(fwu)
       IN IF input # 1 \/ fwu.in_ub_mode THEN Returns(p, "read_config", -EINVAL)
          ELSE IF r.ret < 0 THEN Returns(p, "read_config", r.ret)
          ELSE IF r.block_count = 0 THEN Returns(p, "read_config", -EINVAL)
          ELSE Proceeds(p, "read_config", r.block_count)
  /\ UNCHANGED <<fwu, dev, mutex, log, nfaults, unlocked_access>>

\* fwu_do_read_config from the lock to the exit label
fwu_do_read_config(p) ==
  /\ loc[p].op = "read_config"
  /\ LockedBody(p, "ReadConfigToExit", <<loc[p].block_count>>)

\* fwu_do_read_config from the exit label to the unlock
fwu_do_read_config_exit(p) ==
  /\ loc[p].op = "read_config"
  /\ LockedExit(p, "fwu_reset_device", FALSE)

\* The return of fwu_do_read_config and fwu_sysfs_read_config_store
fwu_sysfs_read_config_store_return(p) ==
  /\ loc[p].op = "read_config"
  /\ AfterUnlock(p, fwu, Result(loc[p].retval))

\* The exit label of the store handlers that consume the uploaded image
ImageStoreExit(f) == [f EXCEPT !.ext_data_source = NoImage, !.image = NoImage]

\* A store handler that consumes the uploaded image, up to the lock: checks
\* names what its start function does before the lock.
ImageStoreStart(p, op, checks) ==
  /\ MayStart(p, OpWork)
  /\ \E input \in {0, 1} :
       IF input # 1 \/ fwu.in_ub_mode
       THEN fwu' = ImageStoreExit(fwu) /\ Returns(p, op, -EINVAL)
       ELSE IF fwu.ext_data_source = NoImage
       THEN fwu' = fwu /\ Returns(p, op, -EINVAL)
       ELSE LET r == Call(checks, <<[fwu EXCEPT !.image = fwu.ext_data_source], dev>>)
            IN IF r.ret < 0
               THEN fwu' = ImageStoreExit(r.f) /\ Returns(p, op, r.ret)
               ELSE fwu' = r.f /\ Proceeds(p, op, 0)
  /\ UNCHANGED <<dev, mutex, log, nfaults, unlocked_access>>

\* fwu_sysfs_write_config_store and fwu_start_write_config up to the lock
fwu_sysfs_write_config_store(p) ==
  /\ pc[p] = "idle"
  /\ ImageStoreStart(p, "write_config", "WriteConfigChecks")

\* fwu_start_write_config from the lock to the exit label
fwu_start_write_config(p) ==
  /\ loc[p].op = "write_config"
  /\ LockedBody(p, "WriteConfigToExit", <<>>)

\* fwu_start_write_config from the exit label to the unlock
fwu_start_write_config_exit(p) ==
  /\ loc[p].op = "write_config"
  /\ LockedExit(p, "WriteConfigFromExit", FALSE)

\* The return of fwu_start_write_config and fwu_sysfs_write_config_store
fwu_sysfs_write_config_store_return(p) ==
  /\ loc[p].op = "write_config"
  /\ AfterUnlock(p, ImageStoreExit(fwu), Result(loc[p].retval))

\* fwu_sysfs_write_guest_code_store and fwu_start_write_guest_code up to the
\* lock
fwu_sysfs_write_guest_code_store(p) ==
  /\ pc[p] = "idle"
  /\ ImageStoreStart(p, "write_guest_code", "WriteGuestCodeChecks")

\* fwu_start_write_guest_code from the lock to the exit label
fwu_start_write_guest_code(p) ==
  /\ loc[p].op = "write_guest_code"
  /\ LockedBody(p, "WriteGuestCodeToExit", <<>>)

\* fwu_start_write_guest_code from the exit label to the unlock
fwu_start_write_guest_code_exit(p) ==
  /\ loc[p].op = "write_guest_code"
  /\ LockedExit(p, "fwu_reset_device", FALSE)

\* The return of fwu_start_write_guest_code and
\* fwu_sysfs_write_guest_code_store
fwu_sysfs_write_guest_code_store_return(p) ==
  /\ loc[p].op = "write_guest_code"
  /\ AfterUnlock(p, ImageStoreExit(fwu), Result(loc[p].retval))

\* fwu_sysfs_do_recovery_store up to the lock
fwu_sysfs_do_recovery_store(p) ==
  /\ MayStart(p, OpWork)
  /\ \E input \in {0, 1} :
       IF input # 1 \/ ~fwu.in_ub_mode
       THEN fwu' = ImageStoreExit(fwu) /\ Returns(p, "recovery", -EINVAL)
       ELSE IF fwu.ext_data_source = NoImage
       THEN fwu' = fwu /\ Returns(p, "recovery", -EINVAL)
       ELSE fwu' = [fwu EXCEPT !.image = fwu.ext_data_source]
              /\ Proceeds(p, "recovery", 0)
  /\ UNCHANGED <<dev, mutex, log, nfaults, unlocked_access>>

\* fwu_start_recovery from the lock to the exit label
fwu_start_recovery(p) ==
  /\ loc[p].op = "recovery"
  /\ \E irq_disabled \in {0, -EINVAL} :
       LockedBody(p, "RecoveryToExit", <<irq_disabled>>)

\* fwu_start_recovery from the exit label to the unlock
fwu_start_recovery_exit(p) ==
  /\ loc[p].op = "recovery"
  /\ LockedExit(p, "RecoveryFromExit", FALSE)

\* The return of fwu_start_recovery and fwu_sysfs_do_recovery_store
fwu_sysfs_do_recovery_store_return(p) ==
  /\ loc[p].op = "recovery"
  /\ AfterUnlock(p, ImageStoreExit(fwu), Result(loc[p].retval))

\* fwu_sysfs_erase_store up to the lock
fwu_sysfs_erase_store(p) ==
  /\ MayStart(p, OpWork)
  /\ \E input \in {0, 1} :
       IF input # 1
       THEN fwu' = fwu /\ Returns(p, "erase", -EINVAL)
       ELSE fwu' = [fwu EXCEPT !.wakeup_active = TRUE] /\ Proceeds(p, "erase", 0)
  /\ UNCHANGED <<dev, mutex, log, nfaults, unlocked_access>>

\* fwu_sysfs_erase_store from the lock to reset_and_exit
fwu_sysfs_erase_store_erase(p) ==
  /\ loc[p].op = "erase"
  /\ LockedBody(p, "EraseStoreToExit", <<>>)

\* fwu_sysfs_erase_store from reset_and_exit to the unlock
fwu_sysfs_erase_store_exit(p) ==
  /\ loc[p].op = "erase"
  /\ LockedExit(p, "EraseStoreFromExit", FALSE)

\* The return of fwu_sysfs_erase_store: always count
fwu_sysfs_erase_store_return(p) ==
  /\ loc[p].op = "erase"
  /\ AfterUnlock(p, [fwu EXCEPT !.wakeup_active = FALSE], Count)

Next ==
  \E p \in Procs :
    \/ fwu_sysfs_store_image(p)
    \/ fwu_sysfs_force_reflash_store(p)
    \/ fwu_sysfs_config_area_store(p)
    \/ fwu_sysfs_do_reflash_store(p)
    \/ fwu_start_reflash(p)
    \/ fwu_start_reflash_exit(p)
    \/ fwu_sysfs_do_reflash_store_return(p)
    \/ fwu_sysfs_read_config_store(p)
    \/ fwu_do_read_config(p)
    \/ fwu_do_read_config_exit(p)
    \/ fwu_sysfs_read_config_store_return(p)
    \/ fwu_sysfs_write_config_store(p)
    \/ fwu_start_write_config(p)
    \/ fwu_start_write_config_exit(p)
    \/ fwu_sysfs_write_config_store_return(p)
    \/ fwu_sysfs_write_guest_code_store(p)
    \/ fwu_start_write_guest_code(p)
    \/ fwu_start_write_guest_code_exit(p)
    \/ fwu_sysfs_write_guest_code_store_return(p)
    \/ fwu_sysfs_do_recovery_store(p)
    \/ fwu_start_recovery(p)
    \/ fwu_start_recovery_exit(p)
    \/ fwu_sysfs_do_recovery_store_return(p)
    \/ fwu_sysfs_erase_store(p)
    \/ fwu_sysfs_erase_store_erase(p)
    \/ fwu_sysfs_erase_store_exit(p)
    \/ fwu_sysfs_erase_store_return(p)

Spec == Init /\ [][Next]_vars

\* ------------------------------------------- functions run on their own
\* The state a function is run in: the handle f and the device d, no
\* operation requested.
Given(f, d) ==
  /\ fwu = f
  /\ dev = d
  /\ mutex = NoProc
  /\ pc = [p \in Procs |-> "idle"]
  /\ loc = [p \in Procs |-> Idle]
  /\ log = <<>>
  /\ work = 0
  /\ nfaults = 0
  /\ unlocked_access = FALSE

\* Process p has run the function named op: loc[p].retval is what it
\* returned, log the events it left.
Returned(p, op) == pc[p] = "return" /\ loc[p].op = op

\* Process p runs the driver function fn on the state, the environment
\* injecting at most one fault.
Runs(p, fn) ==
  /\ pc[p] = "idle"
  /\ \A q \in Procs : pc[q] = "idle"
  /\ \E m \in Call("Outcomes", <<fn, Start(<<>>), <<>>, nfaults < MaxFaults>>) :
       /\ Commit(m, TRUE)
       /\ loc' = [loc EXCEPT ![p] = [Idle EXCEPT !.op = fn, !.retval = m.ret]]
  /\ pc' = [pc EXCEPT ![p] = "return"]
  /\ UNCHANGED <<mutex, work>>

\* The handle and the device after construction on the controller id
Constructed(id) == Call("synaptics_rmi4_fwu_init", <<Call("DeviceOf", <<id>>)>>)

\* fwu_check_ui_firmware_size on a device that reports SizeBlocks blocks,
\* one less or one more, and an image whose firmware is up to SizeSlack
\* bytes shorter or longer than SizeBlocks blocks.
SizeBlocks == 100
SizeSlack == 20

SizeInit ==
  \E size \in (SizeBlocks * BlockSize - SizeSlack)..(SizeBlocks * BlockSize + SizeSlack) :
    \E count \in {SizeBlocks - 1, SizeBlocks, SizeBlocks + 1} :
      \E m \in {Constructed("v6")} :
        Given([m.f EXCEPT !.img.ui_firmware.size = size,
                          !.blkcount.ui_firmware = count],
              [m.d EXCEPT !.blkcount.ui_firmware = count])

check_ui_firmware_size(p) ==
  /\ pc[p] = "idle"
  /\ \A q \in Procs : pc[q] = "idle"
  /\ loc' = [loc EXCEPT ![p] = [Idle EXCEPT !.op = "fwu_check_ui_firmware_size",
                                            !.retval = fwu_check_ui_firmware_size(fwu)]]
  /\ pc' = [pc EXCEPT ![p] = "return"]
  /\ UNCHANGED <<fwu, dev, mutex, log, work, nfaults, unlocked_access>>

SizeNext == \E p \in Procs : check_ui_firmware_size(p)

SizeSpec == SizeInit /\ [][SizeNext]_vars

\* fwu_go_nogo on a V6 or a V7 controller of build id DeviceBuildId and
\* configuration id DeviceConfigId, with an image of either build id, forced
\* or not, in bootloader mode or not.
DeviceBuildId == <<0, 16, 0>>
DeviceConfigId == <<1, 2, 3, 4>>
ImageConfigIds ==
  {<<1, 2, 3, 5>>, <<1, 2, 3, 3>>, <<1, 2, 3, 4>>, <<2, 0, 0, 0>>, <<0, 9, 9, 9>>}

GoNogoInit ==
  \E id \in {"v6", "v7"} :
    \E force_update, in_bl_mode, contains_firmware_id \in BOOLEAN :
      \E build \in {0, 1} :
        \E cfg \in ImageConfigIds :
          \E m \in {Constructed(id)} :
            \E d \in {[m.d EXCEPT !.build_id = DeviceBuildId,
                                  !.config_id = DeviceConfigId]} :
              Given([m.f EXCEPT !.force_update = force_update,
                                !.in_bl_mode = in_bl_mode,
                                !.img.contains_firmware_id = contains_firmware_id,
                                !.img.firmware_id = fwu_get_device_firmware_id(d) + build,
                                !.img.cfg = cfg],
                    d)

go_nogo(p) ==
  /\ loc[p].op = "none"
  /\ Runs(p, "fwu_go_nogo")

GoNogoNext == \E p \in Procs : go_nogo(p)

GoNogoSpec == GoNogoInit /\ [][GoNogoNext]_vars

\* fwu_wait_for_idle on a V6 or a V7 controller that has or has not raised
\* its interrupt, is or is not in bootloader mode, and is idle or busy with
\* a command, with status 0 or an error status.
BusyCommand == 3
ErrorStatus == 2

WaitInit ==
  \E id \in {"v6", "v7"} :
    \E irq_sema \in {0, 1} :
      \E mode \in {"ui", "bl"} :
        \E command \in {CMD_IDLE, BusyCommand} :
          \E status \in {0, ErrorStatus} :
            \E intr \in BOOLEAN :
              \E m \in {Constructed(id)} :
                Given([m.f EXCEPT !.irq_enabled = TRUE, !.irq_sema = irq_sema],
                      [m.d EXCEPT !.mode = mode, !.command = command,
                                  !.status = status, !.intr = intr])

wait_for_idle(p) ==
  /\ loc[p].op = "none"
  /\ Runs(p, "fwu_wait_for_idle")

WaitNext == \E p \in Procs : wait_for_idle(p)

WaitSpec == WaitInit /\ [][WaitNext]_vars

\* The decoding of images one after the other by one driver instance, as
\* fwu_start_reflash decodes the image of each update: at most MaxDecodes
\* images, on a V6, a V7 or a V8 controller.
MaxDecodes == 2

DecodeInit ==
  \E id \in {"v6", "v7", "v8"} :
    \E m \in {Constructed(id)} : Given(m.f, m.d)

\* What the decoding step of fwu_start_reflash leaves of the image id when
\* it starts from the handle f: [m, go]
Decoded(f, id, oob) ==
  Call("ReflashDecode", <<Machine([f EXCEPT !.image = id], dev, <<>>, NoFault, 0), oob>>)

decode_image(p) ==
  /\ p = "p1"
  /\ work < MaxDecodes
  /\ \E id \in ImageIds :
       \E oob \in OobOf(id) :
         \E r \in {Decoded(fwu, id, oob)} :
           /\ fwu' = r.m.f
           /\ loc' = [loc EXCEPT ![p] = [Idle EXCEPT !.op = "decode", !.retval = r.m.ret]]
  /\ work' = work + 1
  /\ UNCHANGED <<dev, mutex, pc, log, nfaults, unlocked_access>>

DecodeNext == \E p \in Procs : decode_image(p)

DecodeSpec == DecodeInit /\ [][DecodeNext]_vars

\* fwu_parse_tdat_image on a buffer that starts with the TDAT format byte
\* and goes on with up to MaxTdatLen bytes out of TdatBytes, on a V6
\* controller.  The handle's image is the buffer itself.
MaxTdatLen == 8
TdatBytes == {0, 1, 4}

RECURSIVE TdatBuffers(_)
\* The sequences of at most n bytes out of TdatBytes
TdatBuffers(n) ==
  IF n = 0 THEN {<<>>}
  ELSE LET shorter == TdatBuffers(n - 1)
       IN shorter \cup {Append(b, x) : b \in {c \in shorter : Len(c) = n - 1}, x \in TdatBytes}

TdatInit ==
  \E bytes \in TdatBuffers(MaxTdatLen) :
    \E m \in {Constructed("v6")} :
      Given([m.f EXCEPT !.image = <<TDAT_FORMAT_BYTE>> \o bytes,
                        !.image_size = 1 + Len(bytes)], m.d)

parse_tdat_image(p) ==
  /\ p = "p1"
  /\ pc[p] = "idle"
  /\ \E oob \in OobBytes :
       \E r \in {Call("fwu_parse_tdat_image",
                     <<fwu, Image(fwu.image[1], 0, <<>>, NoHeader0506, fwu.image, <<>>), oob>>)} :
         /\ fwu' = r.f
         /\ loc' = [loc EXCEPT ![p] = [Idle EXCEPT !.op = "fwu_parse_tdat_image",
                                                   !.retval = r.ret]]
  /\ pc' = [pc EXCEPT ![p] = "return"]
  /\ UNCHANGED <<dev, mutex, log, work, nfaults, unlocked_access>>

TdatNext == \E p \in Procs : parse_tdat_image(p)

TdatSpec == TdatInit /\ [][TdatNext]_vars

\* fwu_parse_image_info on a V7 or a V8 controller that has or has not a
\* display configuration and guest code, with a version-0x10 image whose
\* partition table gives each area the device's address or an address
\* PtShift further, may lack the display configuration and the guest code,
\* and may start with up to MaxLead entries the device's table has not.  The handle's
\* image is the image itself.
PtShift == 8
MaxLead == 1
DisplayEntry == PtEntry(DISPLAY_CONFIG_PARTITION, 1, 80)

\* The table of the device's layout with the areas moved by fw, cfg, gc and
\* dp, after lead entries of a bootloader partition; a negative move leaves
\* the entry out.
ImagePt(lead, fw, cfg, gc, dp) ==
  LET moved(e, by) == IF by < 0 THEN <<>> ELSE <<[e EXCEPT !.addr = @ + by]>>
  IN [i \in 1..lead |-> PtEntry(BOOTLOADER_PARTITION, 1, 4)]
       \o moved(DevicePt[1], fw) \o moved(DevicePt[2], cfg) \o <<DevicePt[3], DevicePt[4]>>
       \o moved(DevicePt[5], gc) \o moved(DisplayEntry, dp)

PtInit ==
  \E id \in {"v7", "v8"} :
    \E has_disp_config, has_guest_code \in BOOLEAN :
      \E fw, cfg \in {0, PtShift} :
        \E gc, dp \in {-1, 0, PtShift} :
         \E lead \in 0..MaxLead :
          \E d \in {[DeviceOf(id) EXCEPT !.pt = DevicePt \o <<DisplayEntry>>,
                                         !.partitions = Len(DevicePt) + 1,
                                         !.has_disp_config = has_disp_config,
                                         !.has_guest_code = has_guest_code]} :
            \E m \in {Call("synaptics_rmi4_fwu_init", <<d>>)} :
              Given([m.f EXCEPT !.image = Image10(d.bl_major, 512, 2 * BlockSize, BlockSize,
                                                  ImagePt(lead, fw, cfg, gc, dp),
                                                  <<0, 2, 0, 0>>)],
                    m.d)

parse_image_info(p) ==
  /\ p = "p1"
  /\ pc[p] = "idle"
  /\ \E r \in {Call("fwu_parse_image_info", <<fwu, fwu.image>>)} :
       /\ fwu' = r.f
       /\ loc' = [loc EXCEPT ![p] = [Idle EXCEPT !.op = "fwu_parse_image_info",
                                                 !.retval = r.ret]]
  /\ pc' = [pc EXCEPT ![p] = "return"]
  /\ UNCHANGED <<dev, mutex, log, work, nfaults, unlocked_access>>

PtNext == \E p \in Procs : parse_image_info(p)

PtSpec == PtInit /\ [][PtNext]_vars

\* fwu_recovery_write_chunk on a controller in microbootloader mode, for an
\* image of up to MaxChunkBytes bytes and for one that many bytes longer
\* than the USHRT_MOD chunks an unsigned short counts.
MaxChunkBytes == 40

ChunkSizes ==
  (0..MaxChunkBytes)
    \cup {USHRT_MOD * F35_CHUNK_SIZE + n : n \in 0..MaxChunkBytes}

ChunkInit ==
  \E image_size \in ChunkSizes :
    \E m \in {Constructed("ub")} :
      Given([m.f EXCEPT !.image_size = image_size], m.d)

recovery_write_chunk(p) ==
  /\ loc[p].op = "none"
  /\ Runs(p, "fwu_recovery_write_chunk")

ChunkNext == \E p \in Procs : recovery_write_chunk(p)

ChunkSpec == ChunkInit /\ [][ChunkNext]_vars

\* fwu_scan_pdt on a device whose page description table holds up to
\* MaxPdtEntries entries: F01, F34 of a recognised version, F34 of the
\* version UnknownVersion, F35 or the function OtherFunction.
MaxPdtEntries == 3
UnknownVersion == 3
OtherFunction == 17

PdtEntry(fn_number, fn_version) == [fn_number |-> fn_number, fn_version |-> fn_version]

PdtChoices ==
  {PdtEntry(SYNAPTICS_RMI4_F01, 0), PdtEntry(SYNAPTICS_RMI4_F34, F34_V1),
   PdtEntry(SYNAPTICS_RMI4_F34, UnknownVersion), PdtEntry(SYNAPTICS_RMI4_F35, 0),
   PdtEntry(OtherFunction, 0)}

PdtTables == UNION {[1..n -> PdtChoices] : n \in 0..MaxPdtEntries}

ScanInit ==
  \E pdt \in PdtTables :
    \E m \in {Constructed("v6")} :
      Given(m.f, [x \in DOMAIN m.d \cup {"pdt"} |-> IF x = "pdt" THEN pdt ELSE m.d[x]])

scan_pdt(p) ==
  /\ loc[p].op = "none"
  /\ Runs(p, "fwu_scan_pdt")

ScanNext == \E p \in Procs : scan_pdt(p)

ScanSpec == ScanInit /\ [][ScanNext]_vars

\* fwu_write_f34_blocks writing up to MaxCommandBlocks blocks with one of
\* the write commands to a controller of each protocol version that is in
\* bootloader mode with the flash interrupt handler enabled: every block is
\* one command written, one wait for the device and one read of the flash
\* status.
MaxCommandBlocks == 2

WriteCommands == {CMD_WRITE_FW, CMD_WRITE_CONFIG, CMD_WRITE_GUEST_CODE}

\* The controller of the protocol version id, in bootloader mode
BootloaderDevice(id) ==
  LET d == Call("DeviceOf", <<IF id = "v5" THEN "v6" ELSE id>>)
  IN [d EXCEPT !.mode = "bl", !.fw_ok = FALSE,
               !.fn_version = IF id = "v5" THEN F34_V0 ELSE @]

CommandInit ==
  \E id \in {"v5", "v6", "v7", "v8"} :
    \E m \in {Call("synaptics_rmi4_fwu_init", <<BootloaderDevice(id)>>)} :
      Given([m.f EXCEPT !.irq_enabled = TRUE], m.d)

write_f34_blocks(p) ==
  /\ loc[p].op = "none"
  /\ \A q \in Procs : pc[q] = "idle"
  /\ \E cmd \in WriteCommands :
       \E block_cnt \in 1..MaxCommandBlocks :
         \E m \in Call("Outcomes", <<"fwu_write_f34_blocks", Start(<<>>),
                                    <<block_cnt, cmd>>, nfaults < MaxFaults>>) :
           /\ Commit(m, TRUE)
           /\ loc' = [loc EXCEPT ![p] = [Idle EXCEPT !.op = "fwu_write_f34_blocks",
                                                     !.retval = m.ret]]
  /\ pc' = [pc EXCEPT ![p] = "return"]
  /\ UNCHANGED <<mutex, work>>

CommandNext == \E p \in Procs : write_f34_blocks(p)

CommandSpec == CommandInit /\ [][CommandNext]_vars

\* fwu_do_reflash on a controller of each protocol version that is in
\* bootloader mode with the flash interrupt handler enabled, with or without
\* a display configuration and a guest code area, for an image that was
\* decoded for it: with or without display configuration and guest code,
\* its partition table the device's or one with the firmware and the
\* configuration moved.
FlashDevice(id, has_dp, has_gc) ==
  LET blkcount == [ZeroBlkcount EXCEPT !.ui_firmware = 2, !.ui_config = 1,
                                       !.dp_config = IF has_dp THEN 1 ELSE 0,
                                       !.guest_code = IF has_gc THEN 1 ELSE 0]
      pt == ImagePt(0, 0, 0, IF has_gc THEN 0 ELSE -1, IF has_dp THEN 0 ELSE -1)
  IN CASE id = "v5" -> Device(F34_V0, 5, "bl", BlockSize, blkcount, <<>>,
                              <<1, 0, 0>>, <<0, 1, 0, 0>>)
       [] id = "v6" -> Device(F34_V1, 6, "bl", BlockSize, blkcount, <<>>,
                              <<1, 0, 0>>, <<0, 1, 0, 0>>)
       [] id = "v7" -> Device(F34_V2, 7, "bl", BlockSize,
                              [blkcount EXCEPT !.fl_config = 1, !.bl_config = 1],
                              pt, <<1, 0, 0>>, <<0, 1, 0, 0>>)
       [] OTHER -> Device(F34_V2, 8, "bl", BlockSize,
                          [blkcount EXCEPT !.fl_config = 1, !.bl_config = 1],
                          pt, <<1, 0, 0>>, <<0, 1, 0, 0>>)

FlashImage(id, with_dp, with_gc, moved) ==
  LET shift == IF moved THEN PtShift ELSE 0
      pt == ImagePt(0, shift, shift, IF with_gc THEN shift ELSE -1,
                    IF with_dp THEN shift ELSE -1)
      base == Image10(IF id = "v7" THEN 7 ELSE 8, 512, 2 * BlockSize, BlockSize, pt,
                      <<0, 2, 0, 0>>)
      Kept(c) == c.id # GUEST_CODE_CONTAINER \/ with_gc
  IN IF id \in {"v5", "v6"}
     THEN Image(0, IF id = "v5" THEN IMAGE_HEADER_VERSION_05 ELSE IMAGE_HEADER_VERSION_06,
                <<>>,
                Header0506(IF id = "v5" THEN 5 ELSE 6, TRUE, FALSE, with_dp,
                           2 * BlockSize, BlockSize, 0, 512, BlockSize, 512),
                <<>>, <<0, 2, 0, 0>>)
     ELSE [base EXCEPT !.top =
             SelectSeq(@, Kept)
               \o (IF with_dp THEN <<Container(DISPLAY_CONFIG_CONTAINER, 416, BlockSize)>>
                   ELSE <<>>)]

FlashInit ==
  \E id \in {"v5", "v6", "v7", "v8"} :
    \E has_dp, has_gc, with_dp, with_gc, moved \in BOOLEAN :
      \E m \in {Call("synaptics_rmi4_fwu_init", <<FlashDevice(id, has_dp, has_gc)>>)} :
        \E r \in {Call("fwu_parse_image_info",
                       <<m.f, FlashImage(id, with_dp, with_gc, moved)>>)} :
          /\ r.ret = 0
          /\ Given([r.f EXCEPT !.irq_enabled = TRUE], m.d)

do_reflash(p) ==
  /\ loc[p].op = "none"
  /\ Runs(p, "fwu_do_reflash")

FlashNext == \E p \in Procs : do_reflash(p)

FlashSpec == FlashInit /\ [][FlashNext]_vars

\* ---- block transfers: fwu_write_f34_blocks and fwu_read_f34_blocks of
\* block_cnt blocks, for the block sizes and payload lengths a device may
\* report
MaxBlocks == 5

MaxPayload == 3

BlockSizes == {0, BlockSize, PAGE_SIZE, 2 * PAGE_SIZE}

BlocksInit ==
  \E id \in {"v5", "v6", "v7", "v8"} :
    \E block_size \in BlockSizes :
      \E payload_length \in 0..MaxPayload :
        \E m \in {Call("synaptics_rmi4_fwu_init", <<BootloaderDevice(id)>>)} :
          Given([m.f EXCEPT !.irq_enabled = TRUE, !.block_size = block_size,
                            !.payload_length = payload_length],
                [m.d EXCEPT !.block_size = block_size,
                            !.payload_length = payload_length])

\* A configuration write or read of block_cnt blocks.  A call that raised a
\* divide error does not return.
transfer_f34_blocks(p) ==
  /\ loc[p].op = "none"
  /\ \A q \in Procs : pc[q] = "idle"
  /\ \E t \in {<<"fwu_write_f34_blocks", CMD_WRITE_CONFIG>>,
                <<"fwu_read_f34_blocks", CMD_READ_CONFIG>>} :
       \E block_cnt \in 0..MaxBlocks :
         \E junk \in {0, 1} :
           \E m \in Call("Outcomes", <<t[1], [Start(<<>>) EXCEPT !.junk = junk],
                                      <<block_cnt, t[2]>>, nfaults < MaxFaults>>) :
             /\ Commit(m, TRUE)
             /\ loc' = [loc EXCEPT ![p] = [Idle EXCEPT !.op = t[1], !.retval = m.ret,
                                                       !.block_count = block_cnt]]
             /\ pc' = [pc EXCEPT ![p] = IF Trapped(m) THEN "oops" ELSE "return"]
  /\ UNCHANGED <<mutex, work>>

BlocksNext == \E p \in Procs : transfer_f34_blocks(p)

BlocksSpec == BlocksInit /\ [][BlocksNext]_vars

\* ------------------------------------ an update and the other requests
\* The driver after process p1 has requested an update from the firmware
\* file and waits at the lock, and an image has been uploaded since; and the
\* requests the sysfs files accept while an update runs: update,
\* read-config, write-config, write-guest-code and the selection of the
\* configuration area.
SharedInit ==
  \E id \in {"v6", "v7"} :
    \E image \in {"v6_cfg", "v7_new"} :
      /\ \E m \in {Constructed(id)} :
           /\ fwu = [m.f EXCEPT !.ext_data_source = image, !.image_size = ImageBytes,
                                !.wakeup_active = TRUE]
           /\ dev = m.d
      /\ mutex = NoProc
      /\ pc = [p \in Procs |-> IF p = "p1" THEN "lock" ELSE "idle"]
      /\ loc = [p \in Procs |-> IF p = "p1" THEN [Idle EXCEPT !.op = "reflash"] ELSE Idle]
      /\ log = <<>>
      /\ work = 0
      /\ nfaults = 0
      /\ unlocked_access = FALSE

SharedNext ==
  \E p \in Procs :
    \/ fwu_sysfs_config_area_store(p)
    \/ fwu_sysfs_do_reflash_store(p)
    \/ fwu_start_reflash(p)
    \/ fwu_start_reflash_exit(p)
    \/ fwu_sysfs_do_reflash_store_return(p)
    \/ fwu_sysfs_read_config_store(p)
    \/ fwu_do_read_config(p)
    \/ fwu_do_read_config_exit(p)
    \/ fwu_sysfs_read_config_store_return(p)
    \/ fwu_sysfs_write_config_store(p)
    \/ fwu_start_write_config(p)
    \/ fwu_start_write_config_exit(p)
    \/ fwu_sysfs_write_config_store_return(p)
    \/ fwu_sysfs_write_guest_code_store(p)
    \/ fwu_start_write_guest_code(p)
    \/ fwu_start_write_guest_code_exit(p)
    \/ fwu_sysfs_write_guest_code_store_return(p)

SharedSpec == SharedInit /\ [][SharedNext]_vars

\* ------------------------------------------------------------ lockdown
\* fwu_start_reflash from the status read to the exit label on a V5, V6 or
\* V7 controller in bootloader mode that reports itself unlocked or locked,
\* in a build that requests the lockdown (DO_LOCKDOWN true) or not, with a
\* decoded image that carries lockdown data or none, forced or not.
LockdownInit ==
  \E id \in {"v5", "v6", "v7"} :
    \E unlocked, do_lockdown, with_lockdown, force_update \in BOOLEAN :
      \E m \in {Call("synaptics_rmi4_fwu_init", <<FlashDevice(id, FALSE, FALSE)>>)} :
        \E r \in {Call("fwu_parse_image_info",
                       <<m.f, FlashImage(id, FALSE, FALSE, FALSE)>>)} :
          /\ r.ret = 0
          /\ Given([r.f EXCEPT !.irq_enabled = TRUE,
                               !.do_lockdown = do_lockdown,
                               !.force_update = force_update,
                               !.img.lockdown =
                                  IF with_lockdown THEN BlockData(0, LOCKDOWN_SIZE)
                                  ELSE NoBlock],
                   [m.d EXCEPT !.unlocked = unlocked])

start_reflash(p) ==
  /\ loc[p].op = "none"
  /\ Runs(p, "ReflashRun")

LockdownNext == \E p \in Procs : start_reflash(p)

LockdownSpec == LockdownInit /\ [][LockdownNext]_vars

\* ---------------------------------------------------------- properties
\* The commands that erase or program the flash
EraseWriteCommands ==
  {CMD_WRITE_FW, CMD_WRITE_CONFIG, CMD_WRITE_LOCKDOWN, CMD_WRITE_GUEST_CODE,
   CMD_ERASE_ALL, CMD_ERASE_UI_FIRMWARE, CMD_ERASE_UI_CONFIG, CMD_ERASE_BL_CONFIG,
   CMD_ERASE_DISP_CONFIG, CMD_ERASE_FLASH_CONFIG, CMD_ERASE_GUEST_CODE}

\* The positions of the events e, and of the commands cmds, in the log l
Positions(l, e) == {i \in 1..Len(l) : l[i].e = e}
Commands(l, cmds) == {i \in 1..Len(l) : l[i].e = "cmd" /\ l[i].a \in cmds}

\* Process p is between the lock and the exit label of op: log is the log
\* of its session.
AtExit(p, op) == pc[p] = "exit" /\ loc[p].op = op

\* Process p runs op from its exit label to the unlock in this step: log'
\* is the log of its whole session, the events past Len(log) those of the
\* exit path.
Releases(p, op) == pc[p] = "exit" /\ pc'[p] = "return" /\ loc[p].op = op

\* Process p has finished the session of op and nothing else has run since:
\* log is the log of that session.
Released(p, op) ==
  /\ pc[p] = "return"
  /\ loc[p].op = op
  /\ \A q \in Procs \ {p} : pc[q] = "idle"

\* C1: at most one operation is between taking and releasing the session
\* lock, the lock is held exactly by the process in that stretch, no register
\* transfer is made by a process that does not hold the lock, and a process
\* that requests an operation while the lock is held waits at the lock: it
\* neither returns nor moves on until the lock is free.
C1_SessionLock ==
  /\ [](/\ Cardinality({p \in Procs : pc[p] = "exit"}) <= 1
        /\ \A p \in Procs : pc[p] = "exit" <=> mutex = p
        /\ ~unlocked_access)
  /\ [][\A p \in Procs :
          (pc[p] = "lock" /\ mutex # NoProc) => (pc'[p] = "lock" /\ loc'[p] = loc[p])]_vars

\* An operation is running and another one waits at the lock
C1_Blocked ==
  \E p, q \in Procs : pc[p] = "exit" /\ mutex = p /\ pc[q] = "lock"

\* C2: an update whose steps up to the exit label failed returns an error
\* value.
C2_FailureReturned ==
  \A p \in Procs :
    (pc[p] = "return" /\ loc[p].op = "reflash" /\ loc[p].body_ret < 0)
      => loc[p].retval < 0

\* C3: every update ends, after its exit label, with a device reset, then a
\* rescan of the descriptor table, then a re-read of the configuration
\* identifier, then the release of the lock, and issues no erase or write
\* command on the way.
C3_ExitOrder ==
  [][\A p \in Procs :
       Releases(p, "reflash") =>
         \E i, j, k \in (Len(log) + 1)..(Len(log') - 1) :
           /\ i < j /\ j < k
           /\ log'[i].e = "reset"
           /\ log'[j].e = "scan_pdt"
           /\ log'[k].e = "config_id"
           /\ \A n \in (k + 1)..(Len(log') - 1) :
                log'[n].e \notin {"reset", "scan_pdt", "config_id"}
           /\ \A n \in Commands(log', EraseWriteCommands) : n <= Len(log)
           /\ log'[Len(log')].e = "unlock"
           /\ mutex' = NoProc]_vars

\* An update that failed after it had issued an erase or a write command has
\* released the lock.
C3_FailedUpdateEnded ==
  \E p \in Procs :
    /\ Released(p, "reflash")
    /\ loc[p].body_ret < 0
    /\ Commands(log, EraseWriteCommands) # {}
    /\ log[Len(log)].e = "unlock"

\* C4: when an update finds a size mismatch, no erase or write command was
\* issued before it in the session.
C4_NoEraseBeforeMismatch ==
  \A p \in Procs :
    AtExit(p, "reflash") =>
      \A i \in Positions(log, "size_mismatch") :
        \A j \in Commands(log, EraseWriteCommands) : j > i

\* C7: an update whose image fails to decode returns an error at its exit
\* label, having made no go/no-go decision and issued no command to enter
\* programming mode, to erase or to write.
C7_DecodeFailureAborts ==
  \A p \in Procs :
    (AtExit(p, "reflash") /\ Positions(log, "decode_failed") # {}) =>
      /\ loc[p].body_ret < 0
      /\ Positions(log, "flash_area") = {}
      /\ Commands(log, EraseWriteCommands \cup {CMD_ENABLE_FLASH_PROG}) = {}

\* C9: every operation that holds the session lock resets the device on its
\* exit path and then releases the lock.
C9_ResetThenRelease ==
  [][\A p \in Procs :
       (pc[p] = "exit" /\ pc'[p] = "return") =>
         /\ \E i \in (Len(log) + 1)..(Len(log') - 1) : log'[i].e = "reset"
         /\ log'[Len(log')].e = "unlock"
         /\ mutex' = NoProc]_vars

\* C10: while no operation holds the session lock the flash interrupt
\* handler is disabled.
C10_IrqOnlyInSession == mutex = NoProc => ~fwu.irq_enabled

\* C5: the UI firmware size check passes exactly when the image's firmware
\* length is the block size times the block count the device reports, and
\* fails with -EINVAL otherwise.
C5_ExactSize ==
  \A p \in Procs :
    Returned(p, "fwu_check_ui_firmware_size") =>
      IF fwu.img.ui_firmware.size = fwu.block_size * fwu.blkcount.ui_firmware
      THEN loc[p].retval = 0
      ELSE loc[p].retval = -EINVAL

\* The image's configuration id is greater than the device's in
\* lexicographic unsigned-byte order over the config-id length
ImageConfigIdGreater ==
  LET size == IF fwu.bl_version >= BL_V7 THEN V7_CONFIG_ID_SIZE ELSE V5V6_CONFIG_ID_SIZE
  IN \E k \in 1..size :
       /\ Padded(fwu.img.cfg, k) > Padded(dev.config_id, k)
       /\ \A n \in 1..(k - 1) : Padded(fwu.img.cfg, n) = Padded(dev.config_id, n)

\* The image's build id differs from the device's
BuildIdsDiffer == fwu.img.firmware_id # fwu_get_device_firmware_id(dev)

\* The read of the device's configuration id, the one register transfer of
\* fwu_go_nogo, failed.
ConfigIdReadFailed == nfaults > 0

\* C6 as stated: forced or in bootloader mode gives firmware and
\* configuration; otherwise differing build ids give firmware and
\* configuration; otherwise the decision is configuration only exactly when
\* the image's configuration id is greater, and none when it is not.
C6_GoNogoTable ==
  \A p \in Procs :
    Returned(p, "fwu_go_nogo") =>
      loc[p].retval =
        IF fwu.force_update \/ fwu.in_bl_mode THEN UI_FIRMWARE
        ELSE IF BuildIdsDiffer THEN UI_FIRMWARE
        ELSE IF ImageConfigIdGreater THEN UI_CONFIG
        ELSE NONE

\* C6 amended: forced or in bootloader mode gives firmware and
\* configuration; otherwise an image without a build id gives none;
\* otherwise differing build ids give firmware and configuration; otherwise
\* a failed read of the device's configuration id gives none; otherwise the
\* decision is configuration only exactly when the image's configuration id
\* is greater, and none when it is equal or smaller.
C6_GoNogoTableAmended ==
  \A p \in Procs :
    Returned(p, "fwu_go_nogo") =>
      loc[p].retval =
        IF fwu.force_update \/ fwu.in_bl_mode THEN UI_FIRMWARE
        ELSE IF ~fwu.img.contains_firmware_id THEN NONE
        ELSE IF BuildIdsDiffer THEN UI_FIRMWARE
        ELSE IF ConfigIdReadFailed THEN NONE
        ELSE IF ImageConfigIdGreater THEN UI_CONFIG
        ELSE NONE

\* Equal build ids, device configuration id 1 2 3 4, image configuration id
\* 1 2 3 5: configuration only.
C6_ConfigOnly ==
  \E p \in Procs :
    /\ Returned(p, "fwu_go_nogo")
    /\ ~fwu.force_update /\ ~fwu.in_bl_mode
    /\ fwu.img.contains_firmware_id /\ ~BuildIdsDiffer /\ ~ConfigIdReadFailed
    /\ dev.config_id = <<1, 2, 3, 4>> /\ fwu.img.cfg = <<1, 2, 3, 5>>
    /\ loc[p].retval = UI_CONFIG

\* C8: a wait that timed out succeeds when the status read after it shows
\* the command idle and status 0, and fails with -ETIMEDOUT otherwise.
C8_TimeoutFails ==
  \A p \in Procs :
    (Returned(p, "fwu_wait_for_idle") /\ Positions(log, "timeout") # {} /\ nfaults = 0) =>
      IF fwu.command = CMD_IDLE /\ fwu.flash_status = 0
      THEN loc[p].retval = 0
      ELSE loc[p].retval = -ETIMEDOUT

\* C11: the wake lock is held whenever an operation has issued an erase or a
\* write command in its session, and it is released once no operation is
\* under way.
C11_WakeLockHeld ==
  /\ \A p \in Procs :
       (pc[p] = "exit" /\ Commands(log, EraseWriteCommands) # {}) => fwu.wakeup_active
  /\ (\A p \in Procs : pc[p] = "idle") => ~fwu.wakeup_active

\* The log l without its "timeout", "not_idle" and "io_error" events, which
\* tell how a wait or a register transfer ended
IsNoTimeout(e) == e.e \notin {"timeout", "not_idle", "io_error"}
Untimed(l) == SelectSeq(l, IsNoTimeout)

\* The number of consecutive waits that follow position i of the log l
WaitsAfter(l, i) ==
  CHOOSE n \in 0..(Len(l) - i) :
    /\ \A k \in 1..n : l[i + k].e = "wait"
    /\ (i + n < Len(l) => l[i + n + 1].e # "wait")

BlockReferences(img) ==
  [ui_firmware |-> img.ui_firmware, ui_config |-> img.ui_config,
   dp_config |-> img.dp_config, fl_config |-> img.fl_config,
   bl_config |-> img.bl_config, guest_code |-> img.guest_code,
   lockdown |-> img.lockdown,
   contains_firmware_id |-> img.contains_firmware_id,
   contains_bootloader |-> img.contains_bootloader,
   contains_disp_config |-> img.contains_disp_config,
   contains_guest_code |-> img.contains_guest_code,
   contains_flash_config |-> img.contains_flash_config,
   firmware_id |-> img.firmware_id]

\* C13: whatever was decoded before, decoding an image leaves the block
\* references, presence flags and build identifier that decoding the same
\* image leaves on a driver instance that has decoded nothing yet.
C13_DecodeDeterministic ==
  work > 0 =>
    \E oob \in OobOf(fwu.image) :
      BlockReferences(fwu.img)
        = BlockReferences(Decoded([fwu EXCEPT !.img = ZeroImg], fwu.image, oob).m.f.img)

\* The records laid out in data from offset on (1-byte id, 3-byte
\* little-endian length, payload) end exactly at the end of data.
RECURSIVE Tiles(_, _)
Tiles(data, offset) ==
  \/ offset = Len(data)
  \/ /\ offset + 4 <= Len(data)
     /\ LET length == data[offset + 2] + 256 * data[offset + 3] + 65536 * data[offset + 4]
        IN /\ offset + 4 + length <= Len(data)
           /\ Tiles(data, offset + 4 + length)

\* C14: fwu_parse_tdat_image returns 0 exactly when the records after the
\* format byte tile the buffer, and -EINVAL otherwise.
C14_AcceptsIffTiled ==
  \A p \in Procs :
    Returned(p, "fwu_parse_tdat_image") =>
      loc[p].retval = (IF Tiles(fwu.image, 1) THEN 0 ELSE -EINVAL)

\* A buffer whose one record has a payload of 4 bytes and ends exactly at
\* the end of the buffer was accepted
C14_RecordAccepted ==
  \E p \in Procs :
    /\ Returned(p, "fwu_parse_tdat_image")
    /\ loc[p].retval = 0
    /\ Len(fwu.image) = 1 + 4 + 4
    /\ fwu.image[3] = 4

\* The addresses the partition table pt gives the partition id
Addresses(pt, id) == {pt[i].addr : i \in {j \in 1..Len(pt) : pt[j].partition_id = id}}

\* The partition table the image carries in its flash configuration
ImageTable(image) ==
  LET c == CHOOSE c \in SeqToSet(image.top) : c.id = FLASH_CONFIG_CONTAINER
  IN c.pt

\* The areas the comparison covers on the device
PresentAreas ==
  {CORE_CODE_PARTITION, CORE_CONFIG_PARTITION}
    \cup (IF dev.has_disp_config THEN {DISPLAY_CONFIG_PARTITION} ELSE {})
    \cup (IF dev.has_guest_code THEN {GUEST_CODE_PARTITION} ELSE {})

EntriesRead(pt) == SubSeq(pt, 1, Min(Len(pt), fwu.partitions))

\* The address the decoder takes for the partition id from the table pt: 0
\* when none of the entries it reads is for id
AddressRead(pt, id) ==
  IF Addresses(EntriesRead(pt), id) = {} THEN {0} ELSE Addresses(EntriesRead(pt), id)

C16_ChunksCoverImage ==
  \A p \in Procs :
    (Returned(p, "fwu_recovery_write_chunk") /\ loc[p].retval = 0) =>
      LET n == fwu.image_size
          total == (n + F35_CHUNK_SIZE - 1) \div F35_CHUNK_SIZE
      IN /\ Len(log) = 3 * total + 1
         /\ log[Len(log)] = Event("status", 0)
         /\ \A k \in 1..total :
              /\ log[3 * k - 2] = Event("chunk", F35_CHUNK_SIZE * (k - 1))
              /\ log[3 * k - 1] =
                   Event("chunk_bytes",
                         IF F35_CHUNK_SIZE * k <= n THEN F35_CHUNK_SIZE
                         ELSE n - F35_CHUNK_SIZE * (k - 1))
              /\ log[3 * k] = Event("cmd", CMD_F35_WRITE_CHUNK)

\* C17: a recovery whose body succeeds has read a status of no error right
\* after the erase-all command and again after the last chunk; a status read
\* that reports an error ends the body as a failure with nothing written
\* after it, the erase-all is issued at most once and no chunk twice; the
\* exit path leaves the value the body returned.
C17_RecoverySuccessNeedsCleanStatus ==
  \A p \in Procs :
    /\ (loc[p].op = "recovery" /\ pc[p] = "exit") =>
         LET erases == Commands(log, {CMD_F35_ERASE_ALL})
             chunks == Positions(log, "chunk")
             reads == Positions(log, "status")
         IN /\ loc[p].retval >= 0 =>
                 \E i, j \in reads :
                   /\ erases = {i - 1}
                   /\ chunks # {}
                   /\ \A k \in chunks : i < k /\ k < j
                   /\ log[i].a = 0
                   /\ log[j].a = 0
            /\ \A i \in reads :
                 log[i].a # 0 => loc[p].retval < 0 /\ i = Len(log)
            /\ Cardinality(erases) <= 1
            /\ \A i, j \in chunks : i < j => log[i].a < log[j].a
    /\ (loc[p].op = "recovery" /\ pc[p] = "return") =>
         loc[p].retval = loc[p].body_ret

\* A recovery that succeeded after two status reads of no error
C17_RecoverySucceeded ==
  \E p \in Procs :
    /\ loc[p].op = "recovery"
    /\ pc[p] = "exit"
    /\ loc[p].retval = 0
    /\ Cardinality(Positions(log, "status")) = 2

\* The function numbers in the page description table of the device
FunctionsShown == {dev.pdt[i].fn_number : i \in DOMAIN dev.pdt}

UnrecognisedShown ==
  \E i \in DOMAIN dev.pdt :
    /\ dev.pdt[i].fn_number = SYNAPTICS_RMI4_F34
    /\ dev.pdt[i].fn_version \notin {F34_V0, F34_V1, F34_V2}

WriteFirmwareAcknowledged(p) ==
  /\ Returned(p, "fwu_write_f34_blocks")
  /\ nfaults = 0
  /\ Commands(log, {CMD_WRITE_FW}) # {}

C20_EraseFailureReturned ==
  \A p \in Procs :
    (pc[p] = "idle" /\ loc[p].op = "erase" /\ loc[p].body_ret < 0)
      => loc[p].result < 0

\* The commands of the log l that erase
EraseCommands ==
  {CMD_ERASE_ALL, CMD_ERASE_UI_FIRMWARE, CMD_ERASE_UI_CONFIG, CMD_ERASE_BL_CONFIG,
   CMD_ERASE_DISP_CONFIG, CMD_ERASE_FLASH_CONFIG, CMD_ERASE_GUEST_CODE}

\* The erase commands of the log l, in the order they were written
IsErase(e) == e.e = "cmd" /\ e.a \in EraseCommands
Erases(l) == [i \in 1..Len(SelectSeq(l, IsErase)) |-> SelectSeq(l, IsErase)[i].a]

\* Process p ran fwu_do_reflash without a fault and the erase step wrote
\* its commands.
Erased(p) ==
  /\ Returned(p, "fwu_do_reflash")
  /\ nfaults = 0
  /\ Erases(log) # <<>>

\* C21 as stated: the erase step of a full update starts with the erase of
\* the firmware and then that of the UI configuration on a V7 and on a V8
\* controller, and with the one erase-all command on a V5 or V6 controller.
C21_EraseStep ==
  \A p \in Procs :
    Erased(p) =>
      LET E == Erases(log)
      IN IF fwu.bl_version \in {BL_V7, BL_V8}
         THEN /\ Len(E) >= 2
              /\ E[1] = CMD_ERASE_UI_FIRMWARE
              /\ E[2] = CMD_ERASE_UI_CONFIG
              /\ CMD_ERASE_ALL \notin SeqToSet(E)
         ELSE /\ E[1] = CMD_ERASE_ALL
              /\ {CMD_ERASE_UI_FIRMWARE, CMD_ERASE_UI_CONFIG} \cap SeqToSet(E) = {}

\* C21 amended: the erase step of a full update starts with the erase of
\* the firmware and then that of the UI configuration on a V7 controller,
\* and with the one erase-all command on a V5, V6 or V8 controller.
C21_EraseStepAmended ==
  \A p \in Procs :
    Erased(p) =>
      LET E == Erases(log)
      IN IF fwu.bl_version = BL_V7
         THEN /\ Len(E) >= 2
              /\ E[1] = CMD_ERASE_UI_FIRMWARE
              /\ E[2] = CMD_ERASE_UI_CONFIG
              /\ CMD_ERASE_ALL \notin SeqToSet(E)
         ELSE /\ E[1] = CMD_ERASE_ALL
              /\ {CMD_ERASE_UI_FIRMWARE, CMD_ERASE_UI_CONFIG} \cap SeqToSet(E) = {}

\* A full update of a V8 controller that erased with the erase-all command
C21_V8ErasedAll ==
  \E p \in Procs :
    /\ Erased(p)
    /\ fwu.bl_version = BL_V8
    /\ loc[p].retval = 0
    /\ Erases(log)[1] = CMD_ERASE_ALL

\* The commands written in the session
Issued == {log[i].a : i \in Positions(log, "cmd")}

\* C22 as stated: the guest code and the display configuration are each
\* erased only when the device has the area and the image brings a new
\* partition table; with the table unchanged no command erases them and
\* none writes the guest code.
C22_ConditionalErases ==
  /\ CMD_ERASE_GUEST_CODE \in Issued
       => fwu.has_guest_code /\ fwu.new_partition_table
  /\ CMD_ERASE_DISP_CONFIG \in Issued
       => fwu.flash_properties.has_disp_config /\ fwu.new_partition_table
  /\ ~fwu.new_partition_table => CMD_WRITE_GUEST_CODE \notin Issued

\* C22 amended: the guest code is erased only when the device has the area
\* and the image brings a new partition table, and with the table unchanged
\* no command erases or writes it; the display configuration is erased only
\* when the device has the area, and a full update of a V5, V6 or V7
\* controller that has it erases it whatever the partition table.
C22_ConditionalErasesAmended ==
  /\ CMD_ERASE_GUEST_CODE \in Issued
       => fwu.has_guest_code /\ fwu.new_partition_table
  /\ CMD_ERASE_DISP_CONFIG \in Issued => fwu.flash_properties.has_disp_config
  /\ ~fwu.new_partition_table => CMD_WRITE_GUEST_CODE \notin Issued
  /\ \A p \in Procs :
       (Erased(p) /\ loc[p].retval = 0 /\ fwu.bl_version # BL_V8
          /\ fwu.flash_properties.has_disp_config)
         => CMD_ERASE_DISP_CONFIG \in Issued

\* A full update with the partition table unchanged, on a device with a
\* display configuration and a guest code area, that erased the display
\* configuration and left the guest code alone
C22_DisplayErasedGuestKept ==
  \E p \in Procs :
    /\ Erased(p)
    /\ loc[p].retval = 0
    /\ ~fwu.new_partition_table
    /\ fwu.has_guest_code
    /\ fwu.img.contains_guest_code
    /\ CMD_ERASE_DISP_CONFIG \in Issued
    /\ CMD_ERASE_GUEST_CODE \notin Issued

\* The area the transfer that holds position i of the log l was set up for:
\* the partition or the configuration area selected last before i
SelectedArea(l, i) ==
  LET S == {k \in 1..(i - 1) : l[k].e \in {"partition", "config_area"}}
      k == CHOOSE x \in S : \A y \in S : y <= x
  IN IF S = {} THEN "none"
     ELSE IF l[k].e = "partition"
     THEN CASE l[k].a = CORE_CONFIG_PARTITION -> "ui_config"
            [] l[k].a = DISPLAY_CONFIG_PARTITION -> "dp_config"
            [] l[k].a = FLASH_CONFIG_PARTITION -> "fl_config"
            [] l[k].a = GLOBAL_PARAMETERS_PARTITION -> "bl_config"
            [] l[k].a = GUEST_SERIALIZATION_PARTITION -> "pm_config"
            [] OTHER -> "none"
     ELSE CASE l[k].a = UI_CONFIG_AREA -> "ui_config"
            [] l[k].a = DP_CONFIG_AREA -> "dp_config"
            [] l[k].a = FLASH_CONFIG_AREA -> "fl_config"
            [] l[k].a = BL_CONFIG_AREA -> "bl_config"
            [] l[k].a = PM_CONFIG_AREA -> "pm_config"
            [] OTHER -> "none"

\* The area the write command at position i of the log l writes
WrittenArea(l, i) ==
  CASE l[i].a = CMD_WRITE_FW -> "ui_firmware"
    [] l[i].a = CMD_WRITE_GUEST_CODE -> "guest_code"
    [] l[i].a = CMD_WRITE_LOCKDOWN -> "lockdown"
    [] l[i].a = CMD_WRITE_CONFIG -> SelectedArea(l, i)
    [] OTHER -> "none"

\* The areas the session wrote to
Written == {WrittenArea(log, i) : i \in Positions(log, "cmd")} \ {"none"}

\* C23 as stated: the flash configuration is erased or written only on a V7
\* or V8 controller and only when the image brings a new partition table.
C23_TableRewrittenWhenNew ==
  (CMD_ERASE_FLASH_CONFIG \in Issued \/ "fl_config" \in Written)
    => fwu.bl_version \in {BL_V7, BL_V8} /\ fwu.new_partition_table

\* C23 amended: the flash configuration is erased or written only on a V7
\* controller when the image brings a new partition table and on a V8
\* controller, where every full update writes it after the erase-all.
C23_TableRewrittenAmended ==
  /\ (CMD_ERASE_FLASH_CONFIG \in Issued \/ "fl_config" \in Written)
       => \/ fwu.bl_version = BL_V7 /\ fwu.new_partition_table
          \/ fwu.bl_version = BL_V8
  /\ \A p \in Procs :
       (Erased(p) /\ loc[p].retval = 0 /\ fwu.bl_version = BL_V8)
         => "fl_config" \in Written

\* A full update of a V8 controller with the partition table unchanged that
\* wrote the flash configuration
C23_V8TableWritten ==
  \E p \in Procs :
    /\ Erased(p)
    /\ loc[p].retval = 0
    /\ fwu.bl_version = BL_V8
    /\ ~fwu.new_partition_table
    /\ "fl_config" \in Written

\* The step of the partition table rewrite the event at position i of the
\* log l records, "none" for any other event
RewriteStep(l, i) ==
  CASE l[i].e = "reset" -> "reset"
    [] l[i].e = "cmd" /\ l[i].a = CMD_READ_CONFIG /\ SelectedArea(l, i) = "bl_config" ->
         "read_bl"
    [] l[i].e = "cmd" /\ l[i].a = CMD_ERASE_BL_CONFIG -> "erase_bl"
    [] l[i].e = "cmd" /\ l[i].a = CMD_ERASE_FLASH_CONFIG -> "erase_fl"
    [] l[i].e = "cmd" /\ l[i].a = CMD_WRITE_CONFIG /\ SelectedArea(l, i) = "fl_config" ->
         "write_fl"
    [] l[i].e = "cmd" /\ l[i].a = CMD_WRITE_CONFIG /\ SelectedArea(l, i) = "bl_config" ->
         "write_bl"
    [] OTHER -> "none"

\* The steps of the partition table rewrite in the log l, in their order
RewriteSteps(l) ==
  LET at == SelectSeq([i \in 1..Len(l) |-> i], LAMBDA i : RewriteStep(l, i) # "none")
  IN [k \in 1..Len(at) |-> RewriteStep(l, at[k])]

\* The steps other than step
Without(steps, step) == SelectSeq(steps, LAMBDA x : x # step)

\* Process p ran fwu_do_reflash to success on a V7 controller with an image
\* that brings a new partition table.
Rewritten(p) ==
  /\ Returned(p, "fwu_do_reflash")
  /\ loc[p].retval = 0
  /\ fwu.bl_version = BL_V7
  /\ fwu.new_partition_table

\* The bootloader configuration holds what was read into read_config_buf
\* before the area was erased.
BlConfigKept ==
  /\ fwu.read_config_buf = FactoryBlConfig
  /\ dev.bl_config = fwu.read_config_buf

\* C24 as stated: the rewrite reads the bootloader configuration, erases the
\* flash configuration, writes it, writes the bootloader configuration back
\* and then resets the device; the bytes written back are the bytes read.
C24_RewriteOrder ==
  \A p \in Procs :
    Rewritten(p)
      => /\ Without(RewriteSteps(log), "erase_bl")
              = <<"read_bl", "erase_fl", "write_fl", "write_bl", "reset">>
         /\ BlConfigKept

\* C24 amended: the rewrite reads the bootloader configuration, erases it,
\* erases the flash configuration, writes the flash configuration, resets
\* the device and then writes the bootloader configuration back; the bytes
\* written back are the bytes read.
C24_RewriteOrderAmended ==
  \A p \in Procs :
    Rewritten(p)
      => /\ RewriteSteps(log)
              = <<"read_bl", "erase_bl", "erase_fl", "write_fl", "reset", "write_bl">>
         /\ BlConfigKept

\* A fault-free update of a V7 controller that rewrote the partition table
\* and wrote the bootloader configuration back
C24_TableRewritten ==
  \E p \in Procs :
    /\ Rewritten(p)
    /\ nfaults = 0
    /\ \E i \in 1..Len(log) : RewriteStep(log, i) = "write_bl"

\* The flash areas an update writes
UpdateAreas == {"ui_firmware", "ui_config", "dp_config", "fl_config", "guest_code"}

\* The erase command cmd covers the flash area
Covers(cmd, area) ==
  CASE cmd = CMD_ERASE_ALL -> TRUE
    [] cmd = CMD_ERASE_UI_FIRMWARE -> area = "ui_firmware"
    [] cmd = CMD_ERASE_UI_CONFIG -> area = "ui_config"
    [] cmd = CMD_ERASE_DISP_CONFIG -> area = "dp_config"
    [] cmd = CMD_ERASE_FLASH_CONFIG -> area = "fl_config"
    [] cmd = CMD_ERASE_GUEST_CODE -> area = "guest_code"
    [] cmd = CMD_ERASE_BL_CONFIG -> area = "bl_config"
    [] OTHER -> FALSE

\* Before position i the log l holds an erase command that covers the area
\* and a wait that follows it.
ErasedBefore(l, i, area) ==
  \E j \in 1..(i - 1) :
    /\ l[j].e = "cmd"
    /\ Covers(l[j].a, area)
    /\ \E k \in (j + 1)..(i - 1) : l[k].e = "wait"

Decided(flash_area) ==
  \E i \in Positions(log, "flash_area") : log[i].a = flash_area

\* C26: in a session whose go/no-go decision is no update, no command that
\* enables programming, erases or writes is issued; in a session whose
\* decision is the UI configuration only, every erase command erases the UI
\* configuration and every write command writes it, and the session that
\* succeeds has erased and written it.
C26_AreasMatchDecision ==
  /\ Decided(NONE)
       => Commands(log, EraseWriteCommands \cup {CMD_ENABLE_FLASH_PROG}) = {}
  /\ Decided(UI_CONFIG)
       => \A i \in Commands(log, EraseWriteCommands) :
            \/ log[i].a = CMD_ERASE_UI_CONFIG
            \/ log[i].a = CMD_WRITE_CONFIG /\ SelectedArea(log, i) = "ui_config"
  /\ \A p \in Procs :
       (Released(p, "reflash") /\ loc[p].body_ret = 0 /\ Decided(UI_CONFIG))
         => /\ CMD_ERASE_UI_CONFIG \in Issued
            /\ Written = {"ui_config"}

\* A finished session that decided for the UI configuration only and wrote
\* it
C26_ConfigOnlyWritten ==
  \E p \in Procs :
    /\ Released(p, "reflash")
    /\ loc[p].body_ret = 0
    /\ Decided(UI_CONFIG)
    /\ Written = {"ui_config"}

\* C27: a block write that saw, after a chunk, a command in progress or a
\* flash status other than 0 issues no further chunk and returns an error.
C27_WriteStopsOnStatus ==
  \A p \in Procs :
    Returned(p, "fwu_write_f34_blocks")
      => \A i \in Positions(log, "not_idle") :
           /\ \A j \in Positions(log, "cmd") : j < i
           /\ loc[p].retval < 0

\* C28: a block write one of whose register transfers failed has written no
\* command after the failure and returns the transport error.
C28_TransferFailureEndsWrite ==
  \A p \in Procs :
    Returned(p, "fwu_write_f34_blocks")
      => \A i \in Positions(log, "io_error") :
           /\ \A j \in Positions(log, "cmd") : j < i
           /\ loc[p].retval = -EIO

\* The values of the events e of the log l, in their order
ValuesOf(l, e) ==
  LET at == SelectSeq([i \in 1..Len(l) |-> i], LAMBDA i : l[i].e = e)
  IN [k \in 1..Len(at) |-> l[at[k]].a]

\* The sum of the first k elements of the sequence s
RECURSIVE SumTo(_, _)
SumTo(s, k) == IF k = 0 THEN 0 ELSE s[k] + SumTo(s, k - 1)

\* Process p made a block transfer into which no fault was injected.
Transferred(p) ==
  /\ loc[p].op \in {"fwu_write_f34_blocks", "fwu_read_f34_blocks"}
  /\ pc[p] \in {"return", "oops"}
  /\ nfaults = 0

\* The chunks of the log cover block_cnt blocks with chunks of max_transfer
\* blocks and a shorter last one, each taking its data where the one before
\* ended.
ChunksCover(block_cnt, max_transfer) ==
  LET sizes == ValuesOf(log, "transfer")
      places == ValuesOf(log, "position")
  IN /\ Len(places) = Len(sizes)
     /\ SumTo(sizes, Len(sizes)) = block_cnt
     /\ \A k \in 1..Len(sizes) :
          /\ sizes[k] <= max_transfer
          /\ k < Len(sizes) => sizes[k] = max_transfer
          /\ places[k] = SumTo(sizes, k - 1) * fwu.block_size

\* C29: a transfer of block_cnt blocks returns, for every block count,
\* payload length and block size; on a V7 or V8 controller its chunks cover
\* the blocks with max_transfer = min(payload length, page size / block
\* size) blocks a chunk, on a V5 or V6 controller it makes block_cnt
\* transfers of one block.
C29_ChunksCoverBlocks ==
  \A p \in Procs :
    Transferred(p)
      => /\ pc[p] = "return"
         /\ (fwu.bl_version >= BL_V7 /\ fwu.block_size # 0)
              => ChunksCover(loc[p].block_count,
                             Min(fwu.payload_length, PAGE_SIZE \div fwu.block_size))
         /\ fwu.bl_version < BL_V7
              => /\ Cardinality(Positions(log, "cmd")) = loc[p].block_count
                 /\ ValuesOf(log, "position")
                      = [k \in 1..loc[p].block_count |-> (k - 1) * fwu.block_size]

\* ------------------------------------------------------ microloader mode
\* The operations that need the bootloader's flash engine
BootloaderOps == {"reflash", "read_config", "write_config", "write_guest_code"}

\* Process p handles a request for op in this step, the request going on to
\* take the lock or not.
Requests(p, op) ==
  /\ pc[p] = "idle"
  /\ loc'[p].op = op
  /\ loc'[p] # loc[p] \/ pc'[p] # "idle"

\* The request process p handles in this step is refused: it returns an
\* error, the lock, the device and the log of commands are left alone.
Refused(p) ==
  /\ pc'[p] = "idle"
  /\ loc'[p].result < 0
  /\ mutex' = mutex
  /\ dev' = dev
  /\ log' = log

\* Process p runs a part of its session under the lock in this step and
\* issues a command in it.
Commanding(p) ==
  /\ pc[p] \in {"lock", "exit"}
  /\ pc'[p] # pc[p]
  /\ \E i \in Positions(log', "cmd") : pc[p] = "lock" \/ i > Len(log)

DecodeOutcome(f, id) ==
  LET r == Call("fwu_parse_image_info", <<f, Call("ImageOf", <<id>>)>>)
  IN [ret |-> r.ret,
      img |-> IF r.ret = 0 THEN BlockReferences(r.f.img) ELSE BlockReferences(ZeroImg)]

\* C31: the outcome of decoding an image (success or decode error, and the
\* decoded block references) is the one decoding the same image has on any
\* other controller: it does not depend on the protocol version, the count
\* of supported partitions or the partition table of the device.
C31_DecodeIgnoresDevice ==
  (work > 0 /\ ~fwu_tdat_image_format(ImageOf(fwu.image))) =>
    \A id \in {"v6", "v7", "v8"} :
      DecodeOutcome(fwu, fwu.image) = DecodeOutcome(Constructed(id).f, fwu.image)

\* ------------------------------------------------ erased and not written
\* The erase command cmd is issued for the flash area: the combined erase
\* stands for the firmware and the UI configuration.
ErasesArea(cmd, area) ==
  IF cmd = CMD_ERASE_ALL THEN area \in {"ui_firmware", "ui_config"}
  ELSE Covers(cmd, area)

\* C32: in the session of a full update that returns success, every erase
\* command issued for the firmware, the UI configuration, the display
\* configuration or the guest code is followed by a write to that area.
C32_ErasedAreasWritten ==
  \A p \in Procs :
    (Returned(p, "fwu_do_reflash") /\ loc[p].retval = 0) =>
      \A area \in {"ui_firmware", "ui_config", "dp_config", "guest_code"} :
        \A j \in Positions(log, "cmd") :
          ErasesArea(log[j].a, area) =>
            \E i \in Positions(log, "cmd") : i > j /\ WrittenArea(log, i) = area

\* --------------------------------------- the image of a running update
\* C33: while an update holds the session lock, a step of another process
\* (a request for write-config, write-guest-code or read-config, or the
\* selection of a configuration area) leaves the decoded image metadata and
\* the new_partition_table flag as they are.
C33_ImageKeptUnderLock ==
  [][\A p \in Procs :
       (mutex = p /\ loc[p].op = "reflash" /\ pc'[p] = pc[p] /\ loc'[p] = loc[p]) =>
         /\ fwu'.img = fwu.img
         /\ fwu'.new_partition_table = fwu.new_partition_table]_vars

\* ------------------------------------------ a new layout needs the force
\* The commands that enter programming mode, erase or write
ProgrammingCommands == EraseWriteCommands \cup {CMD_ENABLE_FLASH_PROG}

\* The session of the log erased or wrote the partition table or the guest
\* code.
LayoutTouched ==
  \/ Commands(log, {CMD_ERASE_FLASH_CONFIG, CMD_ERASE_GUEST_CODE, CMD_WRITE_GUEST_CODE}) # {}
  \/ \E i \in Positions(log, "cmd") : WrittenArea(log, i) = "fl_config"

\* C34: an update that is not forced and whose image (TDAT images, which
\* carry no partition table, apart) has a partition layout other than the
\* device's returns an error and issues no command to enter programming
\* mode, to erase or to write; and an update that is not forced neither
\* erases nor writes the partition table or the guest code.
C34_NewLayoutNeedsForce ==
  \A p \in Procs :
    (Released(p, "reflash") /\ ~fwu.force_update) =>
      /\ (/\ fwu.image # NoImage
          /\ ~fwu_tdat_image_format(ImageOf(fwu.image))
          /\ Positions(log, "decode_failed") = {}
          /\ fwu.new_partition_table)
           => /\ loc[p].retval < 0
              /\ Commands(log, ProgrammingCommands) = {}
      /\ ~LayoutTouched

\* ------------------------------------------------- an image without id
\* C35: when the update is not forced, the device is not in bootloader mode
\* and the image carries no build identifier, fwu_go_nogo decides no update
\* and writes no command to erase or to write, whatever the configuration
\* ids of the image and of the device.
C35_NoBuildIdNoUpdate ==
  \A p \in Procs :
    (/\ Returned(p, "fwu_go_nogo")
     /\ ~fwu.force_update
     /\ ~fwu.in_bl_mode
     /\ ~fwu.img.contains_firmware_id)
      => /\ loc[p].retval = NONE
         /\ Commands(log, EraseWriteCommands) = {}

\* The decision was no update for an image without build identifier whose
\* configuration id is above the device's
C35_NewerConfigWithoutBuildId ==
  \E p \in Procs :
    /\ Returned(p, "fwu_go_nogo")
    /\ ~fwu.force_update
    /\ ~fwu.in_bl_mode
    /\ ~fwu.img.contains_firmware_id
    /\ fwu.img.cfg = <<1, 2, 3, 5>>
    /\ dev.config_id = DeviceConfigId
    /\ loc[p].retval = NONE

\* ---------------------------------------------------------- lockdown data
\* The lockdown step of fwu_start_reflash is due: the lockdown is requested,
\* the image carries lockdown data and the controller is a V5 or a V6.
LockdownDue ==
  /\ fwu.do_lockdown
  /\ fwu.img.lockdown.data # NullPtr
  /\ fwu.bl_version \in {BL_V5, BL_V6}

\* C36: a command to write the lockdown data is issued only when the
\* lockdown step is due and the device reports itself unlocked, so none is
\* issued to a device that reports itself locked; and when the step is due,
\* a device reset comes after the lockdown writes and before the go/no-go
\* decision.
C36_LockdownGuarded ==
  \A p \in Procs :
    Returned(p, "ReflashRun") =>
      /\ Commands(log, {CMD_WRITE_LOCKDOWN}) # {} => LockdownDue /\ dev.unlocked
      /\ LockdownDue =>
           \A i \in Positions(log, "flash_area") :
             \E j \in Positions(log, "reset") :
               /\ j < i
               /\ \A k \in Commands(log, {CMD_WRITE_LOCKDOWN}) : k < j

\* The lockdown data was written, the device reset and the decision made
C36_LockdownWritten ==
  \E p \in Procs :
    /\ Returned(p, "ReflashRun")
    /\ nfaults = 0
    /\ LockdownDue
    /\ dev.unlocked
    /\ Commands(log, {CMD_WRITE_LOCKDOWN}) # {}
    /\ Positions(log, "flash_area") # {}

\* ------------------------------------------------------- the force flag
\* Process p returns from a doreflash request in this step, the request
\* refused before the lock or the update run to its end.
ReflashReturns(p) ==
  \/ Requests(p, "reflash") /\ pc'[p] = "idle"
  \/ pc[p] = "return" /\ pc'[p] = "idle" /\ loc[p].op = "reflash"

\* C37: when a doreflash request returns, whether the file name was
\* rejected, the update failed or it succeeded, force_update and do_lockdown
\* are false.
C37_ForceOneShot ==
  [][\A p \in Procs :
       ReflashReturns(p) => ~fwu'.force_update /\ ~fwu'.do_lockdown]_vars

\* A force request was accepted from one process and a doreflash request of
\* the other has returned since, leaving the force cleared.
C37_ForceCleared ==
  \E p, q \in Procs :
    /\ loc[q].op = "force_reflash"
    /\ loc[q].result = Count
    /\ pc[p] = "idle"
    /\ loc[p].op = "reflash"
    /\ ~fwu.force_update

\* ================================================================
\* drivers/soc/qcom/secure_buffer.c: assigning the pages of a scatterlist
\* to virtual machines and locking them in the secure world.
\*
\* A table (struct sg_table) is the sequence of the lengths of its entries;
\* an entry is named by its position, and 0 stands for the NULL that ends
\* the chain.  In the specifications of this section mutex is the holder of
\* secure_buffer_mutex, log the calls made to the secure world, each with
\* its caller, and dev.private the private flag of the page of each entry.
EAGAIN == 11
EADDRNOTAVAIL == 99
V2_CHUNK_SIZE == 1048576
BATCH_MAX_SIZE == 2097152
BATCH_MAX_SECTIONS == 32

\* The longest table of mixed entry lengths, and the longest table of pages.
MaxEntries == 3
MaxPages == 34

EntrySizes ==
  {PAGE_SIZE, V2_CHUNK_SIZE - PAGE_SIZE, V2_CHUNK_SIZE, 3 * V2_CHUNK_SIZE}
Tables ==
  UNION {[1..n -> EntrySizes] : n \in 0..MaxEntries}
    \cup {[i \in 1..n |-> PAGE_SIZE] : n \in BATCH_MAX_SECTIONS..MaxPages}

\* What the secure world answers to a call: it is no part of this file.
ScmResults == {0, -EIO}

sg_next(table, sg) == IF sg < Len(table) THEN sg + 1 ELSE 0

\* The do-while loop of get_batches_from_sgl, entered at entry curr_sgl with
\* i entries copied and batch_size bytes in the batch.  The entry after
\* curr_sgl in the chain, when there is one, is entry curr_sgl + 1.
RECURSIVE BatchLoop(_, _, _, _)
BatchLoop(table, curr_sgl, i, batch_size) ==
  IF /\ sg_next(table, curr_sgl) # 0
     /\ i + 1 < BATCH_MAX_SECTIONS
     /\ table[curr_sgl + 1] + (batch_size + table[curr_sgl]) < BATCH_MAX_SIZE
  THEN BatchLoop(table, curr_sgl + 1, i + 1, batch_size + table[curr_sgl])
  ELSE [i |-> i + 1, next_sgl |-> sg_next(table, curr_sgl),
        batch_size |-> batch_size + table[curr_sgl]]

\* get_batches_from_sgl with neither limit: the rest of the chain is one batch.
get_batches_from_sgl_unlimited(table, curr_sgl) ==
  [i |-> Len(table) - curr_sgl + 1, next_sgl |-> 0, batch_size |-> 0]

get_batches_from_sgl(table, curr_sgl) == BatchLoop(table, curr_sgl, 0, 0)

\* A call made to the secure world by process p: the n entries from entry a
\* on, and the answer.
ScmCall(p, a, n, ret) ==
  [e |-> "scm_call2", a |-> a, n |-> n, by |-> p, ret |-> ret]

NoCall ==
  [op |-> "none", table |-> <<>>, batch_start |-> 0, curr_sgl |-> 0,
   ret |-> 0]

NoPages == [private |-> <<>>]

AssignInit ==
  /\ fwu = ZeroFwu
  /\ dev = NoPages
  /\ mutex = NoProc
  /\ pc = [p \in Procs |-> "idle"]
  /\ loc = [p \in Procs |-> NoCall]
  /\ log = <<>>
  /\ work = 0
  /\ nfaults = 0
  /\ unlocked_access = FALSE

\* __hyp_assign_table up to the lock: the arguments checked, and the lock
\* tried or waited for.
hyp_assign_enter(p, op, table, try_lock) ==
  LET call == [NoCall EXCEPT !.op = op, !.table = table]
  IN  /\ pc[p] = "idle"
      /\ IF Len(table) = 0
         THEN /\ pc' = [pc EXCEPT ![p] = "return"]
              /\ loc' = [loc EXCEPT ![p] = [call EXCEPT !.ret = -EINVAL]]
              /\ mutex' = mutex
         ELSE IF try_lock
         THEN IF mutex # NoProc
              THEN /\ pc' = [pc EXCEPT ![p] = "return"]
                   /\ loc' = [loc EXCEPT ![p] = [call EXCEPT !.ret = -EAGAIN]]
                   /\ mutex' = mutex
              ELSE /\ pc' = [pc EXCEPT ![p] = "assign"]
                   /\ loc' = [loc EXCEPT ![p] = [call EXCEPT !.curr_sgl = 1]]
                   /\ mutex' = p
         ELSE /\ pc' = [pc EXCEPT ![p] = "lock"]
              /\ loc' = [loc EXCEPT ![p] = call]
              /\ mutex' = mutex
      /\ UNCHANGED <<fwu, dev, log, work, nfaults, unlocked_access>>

hyp_assign_table(p, table) ==
  hyp_assign_enter(p, "hyp_assign_table", table, FALSE)

try_hyp_assign_table(p, table) ==
  hyp_assign_enter(p, "try_hyp_assign_table", table, TRUE)

\* The lock of __hyp_assign_table taken whether it is free or not.
hyp_assign_lock_unguarded(p) ==
  /\ pc[p] = "lock"
  /\ mutex' = p
  /\ pc' = [pc EXCEPT ![p] = "assign"]
  /\ loc' = [loc EXCEPT ![p].curr_sgl = 1]
  /\ UNCHANGED <<fwu, dev, log, work, nfaults, unlocked_access>>

\* mutex_lock(&secure_buffer_mutex) of __hyp_assign_table
hyp_assign_lock(p) ==
  /\ pc[p] = "lock"
  /\ mutex = NoProc
  /\ mutex' = p
  /\ pc' = [pc EXCEPT ![p] = "assign"]
  /\ loc' = [loc EXCEPT ![p].curr_sgl = 1]
  /\ UNCHANGED <<fwu, dev, log, work, nfaults, unlocked_access>>

\* One pass of the while loop of batched_hyp_assign: a batch is taken from
\* the chain and passed to the secure world, which answers ret.  A failed
\* call and the end of the table leave the loop, and __hyp_assign_table
\* releases the lock and returns.
batched_hyp_assign(p, ret) ==
  LET l == loc[p]
      b == get_batches_from_sgl(l.table, l.curr_sgl)
      start == l.batch_start + b.i
  IN  /\ pc[p] = "assign"
      /\ l.batch_start < Len(l.table)
      /\ log' = Append(log, ScmCall(p, l.curr_sgl, b.i, ret))
      /\ IF ret # 0
         THEN /\ loc' = [loc EXCEPT ![p].ret = -EADDRNOTAVAIL,
                                    ![p].curr_sgl = b.next_sgl]
              /\ pc' = [pc EXCEPT ![p] = "return"]
              /\ mutex' = NoProc
         ELSE /\ loc' = [loc EXCEPT ![p].ret = 0,
                                    ![p].curr_sgl = b.next_sgl,
                                    ![p].batch_start = start]
              /\ IF start < Len(l.table)
                 THEN UNCHANGED <<pc, mutex>>
                 ELSE /\ pc' = [pc EXCEPT ![p] = "return"]
                      /\ mutex' = NoProc
      /\ UNCHANGED <<fwu, dev, work, nfaults, unlocked_access>>

\* The caller has taken the return value and is free to call again.
call_done(p) ==
  /\ pc[p] = "return"
  /\ pc' = [pc EXCEPT ![p] = "idle"]
  /\ loc' = [loc EXCEPT ![p] = NoCall]
  /\ log' = SelectSeq(log, LAMBDA c : c.by # p)
  /\ UNCHANGED <<fwu, dev, mutex, work, nfaults, unlocked_access>>

\* One caller of hyp_assign_table, with every table.
BatchNext ==
  \/ \E table \in Tables : hyp_assign_table("p1", table)
  \/ hyp_assign_lock("p1")
  \/ \E ret \in ScmResults : batched_hyp_assign("p1", ret)
  \/ call_done("p1")

BatchSpec == AssignInit /\ [][BatchNext]_vars /\ WF_vars(BatchNext)

\* ------------------------------------------------------------ the batches
\* The calls process p has made to the secure world in its present call.
Batches(p) == SelectSeq(log, LAMBDA c : c.by = p)

\* The bytes of the n entries of the table from entry a on.
RECURSIVE BatchBytes(_, _, _)
BatchBytes(table, a, n) ==
  IF n = 0 THEN 0 ELSE table[a] + BatchBytes(table, a + 1, n - 1)

\* The batches follow one another from the first entry on, each within the
\* table and within the limits.
BatchesInOrder(table, bs) ==
  \A k \in 1..Len(bs) :
    /\ bs[k].a = (IF k = 1 THEN 1 ELSE bs[k - 1].a + bs[k - 1].n)
    /\ bs[k].n \in 1..BATCH_MAX_SECTIONS
    /\ bs[k].a + bs[k].n - 1 <= Len(table)
    /\ bs[k].n > 1 => BatchBytes(table, bs[k].a, bs[k].n) < BATCH_MAX_SIZE

\* The batches reach the last entry of the table.
BatchesCover(table, bs) ==
  /\ Len(bs) > 0
  /\ Last(bs).a + Last(bs).n - 1 = Len(table)

AssignReturned(p) ==
  /\ pc[p] = "return"
  /\ loc[p].op = "hyp_assign_table"
  /\ Len(loc[p].table) > 0

BatchLoopEnds == \A p \in Procs : pc[p] = "assign" ~> pc[p] = "return"

\* C38 as stated: whenever hyp_assign_table returns for a table with an
\* entry, every entry has been passed to the secure world once and in
\* order, in batches of 1 to 32 entries, a batch of several entries below
\* 2 MiB; and the batching loop ends.
C38_EveryEntryPassed ==
  /\ [](\A p \in Procs :
          /\ BatchesInOrder(loc[p].table, Batches(p))
          /\ AssignReturned(p) => BatchesCover(loc[p].table, Batches(p)))
  /\ BatchLoopEnds

\* C38, amended: the batches hyp_assign_table passes to the secure world
\* follow one another from the first entry on, so that no entry is passed
\* twice or out of order, each batch has 1 to 32 entries, and a batch of
\* several entries is below 2 MiB; when the call returns 0 the batches reach
\* the last entry, so that every entry has been passed exactly once; a batch
\* the secure world refuses is the last one passed, the entries after it
\* are not passed; and the batching loop ends for every table with an entry.
C38_EveryEntryPassedAmended ==
  /\ [](\A p \in Procs :
          /\ BatchesInOrder(loc[p].table, Batches(p))
          /\ (AssignReturned(p) /\ loc[p].ret = 0) =>
               BatchesCover(loc[p].table, Batches(p))
          /\ \A k \in 1..Len(Batches(p)) :
               Batches(p)[k].ret # 0 => k = Len(Batches(p)))
  /\ BatchLoopEnds

\* A table of 34 pages was passed in a batch of 32 and a batch of 2.
C38_FullBatch ==
  \E p \in Procs :
    /\ AssignReturned(p)
    /\ loc[p].ret = 0
    /\ Len(Batches(p)) = 2
    /\ Batches(p)[1].n = BATCH_MAX_SECTIONS
    /\ BatchesCover(loc[p].table, Batches(p))

\* ------------------------------------------------------- the two callers
\* The longest table of the callers that contend for the lock.
AssignEntries == 2

AssignTables ==
  UNION {[1..n -> {PAGE_SIZE, V2_CHUNK_SIZE}] : n \in 0..AssignEntries}

AssignNext ==
  \E p \in Procs :
    \/ \E table \in AssignTables : hyp_assign_table(p, table)
    \/ \E table \in AssignTables : try_hyp_assign_table(p, table)
    \/ hyp_assign_lock(p)
    \/ \E ret \in ScmResults : batched_hyp_assign(p, ret)
    \/ call_done(p)

AssignSpec == AssignInit /\ [][AssignNext]_vars

\* Process p calls try_hyp_assign_table in this step, with a table that has
\* an entry.
TryCalled(p) ==
  /\ pc[p] = "idle"
  /\ pc'[p] # "idle"
  /\ loc'[p].op = "try_hyp_assign_table"
  /\ Len(loc'[p].table) > 0

\* Process p makes a call to the secure world in this step.
ScmCalled(p) ==
  /\ Len(log') = Len(log) + 1
  /\ Last(log').by = p

\* The calls of one caller stand together in the log.
CallsTogether ==
  \A i, j, k \in 1..Len(log) :
    (i < j /\ j < k /\ log[i].by = log[k].by) => log[j].by = log[i].by

\* C39: try_hyp_assign_table, called while another caller holds the lock,
\* returns -EAGAIN at once, having made no call to the secure world and
\* changed nothing; a call the secure world refuses is the last of its
\* caller, who returns -EADDRNOTAVAIL; and every call to the secure world
\* is made by the holder of the lock, so that the calls of two callers do
\* not interleave.
C39_TryNeverBlocks ==
  /\ [][\A p \in Procs :
          /\ (TryCalled(p) /\ mutex # NoProc) =>
               /\ pc'[p] = "return"
               /\ loc'[p].ret = -EAGAIN
               /\ UNCHANGED <<mutex, log, dev>>
          /\ ScmCalled(p) =>
               /\ mutex = p
               /\ \A q \in Procs \ {p} : pc[q] # "assign"
               /\ Last(log').ret # 0 =>
                    /\ pc'[p] = "return"
                    /\ loc'[p].ret = -EADDRNOTAVAIL]_vars
  /\ [](/\ CallsTogether
        /\ \A p \in Procs : \A k \in 1..Len(Batches(p)) :
             Batches(p)[k].ret # 0 =>
               /\ k = Len(Batches(p))
               /\ pc[p] = "return"
               /\ loc[p].ret = -EADDRNOTAVAIL)

\* A caller was sent away with -EAGAIN while the other, holding the lock,
\* was between two calls to the secure world.
C39_SentAway ==
  \E p, q \in Procs :
    /\ pc[p] = "return"
    /\ loc[p].op = "try_hyp_assign_table"
    /\ loc[p].ret = -EAGAIN
    /\ mutex = q
    /\ pc[q] = "assign"
    /\ Len(Batches(q)) > 0
    /\ Batches(p) = <<>>

\* ------------------------------------------------- locking in the secure world
\* The longest table locked or unlocked.
SecureEntries == 2

SecureSizes == {PAGE_SIZE, V2_CHUNK_SIZE, 2 * V2_CHUNK_SIZE}
SecureTables == UNION {[1..n -> SecureSizes] : n \in 0..SecureEntries}

\* The for_each_sg loop of secure_buffer_change_table from entry i on, with
\* the return value, the private flags and the calls made so far in st; the
\* secure world answers answers[i] to the call for entry i.
RECURSIVE ChangeTableLoop(_, _, _, _, _, _)
ChangeTableLoop(p, table, lock, answers, i, st) ==
  IF i > Len(table) THEN st
  ELSE IF table[i] = 0 \/ table[i] % V2_CHUNK_SIZE # 0
  THEN [st EXCEPT !.ret = -EINVAL]
  ELSE ChangeTableLoop(p, table, lock, answers, i + 1,
         [ret |-> answers[i],
          private |-> IF answers[i] = 0
                      THEN [st.private EXCEPT ![i] = (lock = 1)]
                      ELSE st.private,
          calls |-> Append(st.calls,
                      ScmCall(p, i, table[i] \div V2_CHUNK_SIZE, answers[i]))])

secure_buffer_change_table(p, table, lock, private, answers) ==
  ChangeTableLoop(p, table, lock, answers, 1,
                  [ret |-> -EINVAL, private |-> private, calls |-> <<>>])

\* msm_secure_table and msm_unsecure_table: the table changed under the lock.
secure_table(p, op, table, lock, answers) ==
  LET r == secure_buffer_change_table(p, table, lock, dev.private, answers)
  IN  /\ pc[p] = "idle"
      /\ mutex = NoProc
      /\ pc' = [pc EXCEPT ![p] = "return"]
      /\ loc' = [loc EXCEPT ![p] =
                   [NoCall EXCEPT !.op = op, !.table = table, !.ret = r.ret]]
      /\ dev' = [dev EXCEPT !.private = r.private]
      /\ log' = SelectSeq(log, LAMBDA c : c.by # p) \o r.calls
      /\ UNCHANGED <<fwu, mutex, work, nfaults, unlocked_access>>

msm_secure_table(p, table, answers) ==
  secure_table(p, "msm_secure_table", table, 1, answers)

msm_unsecure_table(p, table, answers) ==
  secure_table(p, "msm_unsecure_table", table, 0, answers)

SecureInit ==
  /\ fwu = ZeroFwu
  /\ dev = [private |-> [i \in 1..SecureEntries |-> FALSE]]
  /\ mutex = NoProc
  /\ pc = [p \in Procs |-> "idle"]
  /\ loc = [p \in Procs |-> NoCall]
  /\ log = <<>>
  /\ work = 0
  /\ nfaults = 0
  /\ unlocked_access = FALSE

SecureNext ==
  \E p \in Procs :
    \/ \E table \in SecureTables : \E answers \in [1..Len(table) -> ScmResults] :
         msm_secure_table(p, table, answers)
    \/ \E table \in SecureTables : \E answers \in [1..Len(table) -> ScmResults] :
         msm_unsecure_table(p, table, answers)
    \/ call_done(p)

SecureSpec == SecureInit /\ [][SecureNext]_vars

\* Process p returns from msm_secure_table or msm_unsecure_table in this step.
SecureCalled(p) ==
  /\ pc[p] = "idle"
  /\ pc'[p] = "return"
  /\ loc'[p].op \in {"msm_secure_table", "msm_unsecure_table"}

\* The call of this step for entry i of the table was answered with 0.
EntrySecured(i) ==
  \E k \in (Len(log) + 1)..Len(log') : log'[k].a = i /\ log'[k].ret = 0

\* C40: msm_secure_table and msm_unsecure_table return 0 only if the call to
\* the secure world succeeded for every entry of the table, and they set
\* (lock) or clear (unlock) the private flag of the page of exactly the
\* entries whose call succeeded, leaving the other flags as they were.
C40_ZeroMeansAllSecured ==
  [][\A p \in Procs :
       SecureCalled(p) =>
         /\ loc'[p].ret = 0 =>
              \A i \in 1..Len(loc'[p].table) : EntrySecured(i)
         /\ \A i \in 1..SecureEntries :
              dev'.private[i] =
                IF i <= Len(loc'[p].table) /\ EntrySecured(i)
                THEN loc'[p].op = "msm_secure_table"
                ELSE dev.private[i]]_vars

====
